---------------------------- MODULE Spec2Model ----------------------------
(***************************************************************************)
(* Model of the virtual-memory core of meiOS (libmei):                     *)
(*   - the four-level stage-1 translation table                            *)
(*     (src/libmei/src/mmu/translation_table.rs), and                      *)
(*   - the buddy allocator (src/libmei/src/vm/buddy.rs).                   *)
(*                                                                         *)
(* Geometry is scaled: a descriptor table has TableEntries slots instead   *)
(* of 512 and a 4 KiB page has PageUnits addressable units instead of      *)
(* 4096 bytes.  Every size of the source (FOUR_KIB, TWO_MIB, ONE_GIB, the  *)
(* span of a level-0 slot, the 48-bit space of one TTBR half, the range of *)
(* a u32) is derived from these two numbers exactly as the source derives  *)
(* it from 512 and 4096, and index extraction is done by division and      *)
(* remainder so that it is the same function as the bit-field reads.       *)
(***************************************************************************)
EXTENDS Integers, Sequences, FiniteSets, TLC

VARIABLES
    ttbr,       \* upper 16 bits shared by the virtual addresses of this address space
    tbl,        \* descriptor tables: table address -> slot -> descriptor
    pool,       \* descriptor-table pages the page allocator can still hand out
    iter,       \* the live TraverseIterator, or NoIter
    yielded,    \* what the last call of next() returned
    last,       \* the last public call and its result
    hist,       \* what the current traversal has reported so far
    panicked,   \* a bug!/assert! fired: the kernel is dead
    calls,      \* log of the map calls issued by the caller: request and result
    ntrav,      \* number of traversals started by the caller
    planner,    \* planner harness: input and output of find_best_mapping_scheme
    storage     \* the buddy allocator's Storage, with the caller's outstanding blocks

vars == <<ttbr, tbl, pool, iter, yielded, last, hist, panicked, calls, ntrav, planner, storage>>

---------------------------------------------------------------------------
(* Bounds of the model *)

TableEntries == 2
PageUnits == 2
MaxTables == 5
MaxMaps == 2
MaxMapPages == 5
MaxVaPage == 9
MaxPhyPage == 1

(* Program constants *)
SelOnes == 65535
MAX_TRANSLATION_LEVELS == 4

---------------------------------------------------------------------------
(* Sizes: mmu/utils.rs consts, mmu/mod.rs *)

NUM_TABLE_DESC_ENTRIES == TableEntries
GRANULE_SIZE == PageUnits
FOUR_KIB == PageUnits
TWO_MIB == NUM_TABLE_DESC_ENTRIES * FOUR_KIB
ONE_GIB == NUM_TABLE_DESC_ENTRIES * TWO_MIB
VaSpace == NUM_TABLE_DESC_ENTRIES * NUM_TABLE_DESC_ENTRIES * ONE_GIB
U32Range == 4 * ONE_GIB

Min(a, b) == IF a <= b THEN a ELSE b
Max(a, b) == IF a >= b THEN a ELSE b

get_vaddr_spacing_per_entry(level) ==
    CASE level = 0 -> NUM_TABLE_DESC_ENTRIES * ONE_GIB
      [] level = 1 -> ONE_GIB
      [] level = 2 -> TWO_MIB
      [] level = 3 -> FOUR_KIB

(* address.rs: Address trait *)
align_offset(a, align) == a % align
is_aligned(a, align) == align_offset(a, align) = 0
(* an address handed on without rounding it up to the boundary *)
align_up_skipped(a, align) == a

align_up(a, align) == IF align_offset(a, align) = 0 THEN a ELSE (a - align_offset(a, align)) + align
align_down(a, align) == a - align_offset(a, align)

(* address.rs: VirtualAddress *)
identify_ttbr_select(va) == va \div VaSpace
ValidVirtualAddress(va) == identify_ttbr_select(va) \in {0, SelOnes}
get_idx_for_level(va, level) == (va \div get_vaddr_spacing_per_entry(level)) % NUM_TABLE_DESC_ENTRIES
set_idx_for_level(va, level, idx) ==
    va - get_idx_for_level(va, level) * get_vaddr_spacing_per_entry(level)
       + idx * get_vaddr_spacing_per_entry(level)
clear_idx_for_level(va, level) == set_idx_for_level(va, level, 0)

---------------------------------------------------------------------------
(* vm.rs: AccessPermissions, a bitflags set over bits 0,1,2,4,5,6 *)

EL1_READ == {0}
EL1_WRITE == {1}
EL1_EXECUTE == {0, 2}
EL0_READ == {4}
EL0_WRITE == {5}
EL0_EXECUTE == {4, 6}
AccessPermissionBits == EL1_READ \cup EL1_WRITE \cup EL1_EXECUTE \cup EL0_READ \cup EL0_WRITE \cup EL0_EXECUTE
AccessPermissionFlags == {EL1_READ, EL1_WRITE, EL1_EXECUTE, EL0_READ, EL0_WRITE, EL0_EXECUTE}
AllAccessPermissions == { UNION fs : fs \in SUBSET AccessPermissionFlags }
contains(ap, flags) == flags \subseteq ap
normal_memory_default == EL1_READ \cup EL1_WRITE
user_memory_default == normal_memory_default \cup EL0_READ \cup EL0_WRITE

(* mmu/mod.rs: field values of the stage-1 descriptors *)
RW_EL1 == 0
RW_EL1_EL0 == 1
RO_EL1 == 2
RO_EL1_EL0 == 3
OuterShareable == 2
InnerShareable == 3

(* A 64-bit descriptor, field by field: VALID (bit 0), TYPE (bit 1),       *)
(* AttrIndx, AP, SH, AF, the address bits [47:12] counted in pages, PXN,   *)
(* UXN.  INVALID_DESCRIPTOR is the all-zero word.                          *)
INVALID_DESCRIPTOR ==
    [valid |-> FALSE, type |-> 0, attr_indx |-> 0, ap |-> 0, sh |-> 0, af |-> FALSE,
     addr |-> 0, pxn |-> FALSE, uxn |-> FALSE]

(* attributes whose execute-never bits look at the execute request only *)
attrs_from_execute_request(ap, kind) ==
    [INVALID_DESCRIPTOR EXCEPT
          !.ap  = IF contains(ap, EL1_READ \cup EL1_WRITE)
                  THEN (IF contains(ap, EL0_READ \cup EL0_WRITE) THEN RW_EL1_EL0 ELSE RW_EL1)
                  ELSE IF contains(ap, EL1_READ)
                  THEN (IF contains(ap, EL0_READ) THEN RO_EL1_EL0 ELSE RO_EL1)
                  ELSE 0,
          !.pxn = ~contains(ap, EL1_EXECUTE),
          !.uxn = ~contains(ap, EL0_EXECUTE),
          !.sh  = IF kind = "Normal" THEN InnerShareable ELSE OuterShareable]

(* translation_table.rs: parse_map_attrs *)
parse_map_attrs(ap, kind) ==
    LET el1_rw == contains(ap, EL1_READ \cup EL1_WRITE)
        el0_rw == contains(ap, EL0_READ \cup EL0_WRITE)
        el1_ro == contains(ap, EL1_READ)
        el0_ro == contains(ap, EL0_READ)
    IN [INVALID_DESCRIPTOR EXCEPT
          !.ap  = IF el1_rw THEN (IF el0_rw THEN RW_EL1_EL0 ELSE RW_EL1)
                  ELSE IF el1_ro THEN (IF el0_ro THEN RO_EL1_EL0 ELSE RO_EL1)
                  ELSE 0,
          !.pxn = contains(ap, EL1_WRITE) \/ ~contains(ap, EL1_EXECUTE),
          !.uxn = contains(ap, EL0_WRITE) \/ ~contains(ap, EL0_EXECUTE),
          !.sh  = IF kind = "Normal" THEN InnerShareable ELSE OuterShareable]

(* translation_table.rs: parse_access_perms *)
parse_access_perms(ll_desc) ==
    LET base == CASE ll_desc.ap = RW_EL1_EL0 -> EL1_READ \cup EL1_WRITE \cup EL0_READ \cup EL0_WRITE
                  [] ll_desc.ap = RW_EL1     -> EL1_READ \cup EL1_WRITE
                  [] ll_desc.ap = RO_EL1_EL0 -> EL1_READ \cup EL0_READ
                  [] ll_desc.ap = RO_EL1     -> EL1_READ
        x1 == IF ~ll_desc.pxn /\ ~contains(base, EL1_WRITE) THEN base \cup EL1_EXECUTE ELSE base
    IN IF ~ll_desc.uxn /\ ~contains(x1, EL0_WRITE) THEN x1 \cup EL0_EXECUTE ELSE x1

(* virt2phy / create_memory_map: the memory kind read back from SH *)
is_cacheable(ll_desc) == ll_desc.sh # OuterShareable
memory_kind_of(ll_desc) == IF is_cacheable(ll_desc) THEN "Normal" ELSE "Device"

(* translation_table.rs: descriptor constructors.  output_address is an    *)
(* address in units; the field keeps bits [47:12], [47:21] or [47:30].     *)
new_stage1_table_desc(next_level_addr) ==
    [INVALID_DESCRIPTOR EXCEPT !.valid = TRUE, !.type = 1, !.addr = next_level_addr]

new_stage1_page_desc(output_address, attributes) ==
    [attributes EXCEPT !.valid = TRUE, !.type = 1,
                       !.addr = output_address \div FOUR_KIB]

new_stage1_block_desc(level, output_address, attributes) ==
    [attributes EXCEPT !.valid = TRUE, !.type = 0,
                       !.addr = IF level = 1
                                THEN (output_address \div ONE_GIB) * (ONE_GIB \div FOUR_KIB)
                                ELSE (output_address \div TWO_MIB) * (TWO_MIB \div FOUR_KIB)]

(* the alignment assertion of each constructor *)
desc_ctor_asserts(page_size, output_address) == output_address % page_size = 0

(* the kind of a descriptor read from its TYPE bit alone *)
raw_desc_by_type(desc) == IF desc.type = 1 THEN "TableOrPage" ELSE "Block"

(* translation_table.rs: to_raw_desc, parse_desc *)
to_raw_desc(desc) ==
    IF desc.valid /\ desc.type = 1 THEN "TableOrPage"
    ELSE IF desc.valid /\ desc.type = 0 THEN "Block"
    ELSE "Invalid"

parse_desc(desc, level) ==
    CASE to_raw_desc(desc) = "TableOrPage" -> IF level = 3 THEN "Page" ELSE "Table"
      [] to_raw_desc(desc) = "Block" -> IF level = 1 \/ level = 2 THEN "Block" ELSE "Err"
      [] OTHER -> "Invalid"

(* translation_table.rs: parse_output_address *)
parse_output_address(ll_desc, level) ==
    CASE level = 1 -> (ll_desc.addr \div (ONE_GIB \div FOUR_KIB)) * ONE_GIB
      [] level = 2 -> (ll_desc.addr \div (TWO_MIB \div FOUR_KIB)) * TWO_MIB
      [] level = 3 -> ll_desc.addr * FOUR_KIB


---------------------------------------------------------------------------
(* translation_table.rs: the mapping-scheme planner *)

ALIGNMENTS == <<ONE_GIB, TWO_MIB, FOUR_KIB>>
SpanTags == <<"OneGiB", "TwoMiB", "FourKiB">>

RECURSIVE max_mapping_spans(_)
max_mapping_spans(num_aligns) ==
    IF num_aligns = 0 THEN 0 ELSE 1 + 2 * max_mapping_spans(num_aligns - 1)

MAX_MAPPING_SPANS == max_mapping_spans(Len(ALIGNMENTS))

(* the offset from the previous boundary, without the `align - offset` step *)
offset_from_previous_boundary(a, align) == align_offset(a, align)

(* the local align_offset of find_best_mapping_scheme_impl: distance to the next boundary *)
planner_align_offset(a, align) ==
    IF align_offset(a, align) # 0 THEN align - align_offset(a, align) ELSE 0

(* current_span_size: span_end.align_down(align) discards its result, so this is  *)
(* the distance from the aligned start to the end of the request                  *)
current_span_size_of(paddr, size, align) ==
    LET current_span_paddr == align_up(paddr, align)
        span_end == current_span_paddr + size - planner_align_offset(paddr, align)
    IN span_end - current_span_paddr

(* scheme is [spans |-> sequence of [tag, count], ok |-> no bug!/index panic so far] *)
RECURSIVE find_best_mapping_scheme_impl(_, _, _, _, _)
find_best_mapping_scheme_impl(scheme, vaddr, paddr, size, level) ==
    IF ~scheme.ok \/ size = 0 THEN scheme
    ELSE IF level > Len(ALIGNMENTS) - 1 THEN [scheme EXCEPT !.ok = FALSE]
    ELSE
      LET align == ALIGNMENTS[level + 1]
          va_offset == planner_align_offset(vaddr, align)
          pa_offset == planner_align_offset(paddr, align)
      IN IF va_offset = pa_offset /\ size > pa_offset /\ size - pa_offset >= align
         THEN
           LET current_span_paddr == align_up(paddr, align)
               current_span_size == current_span_size_of(paddr, size, align)
               page_count == current_span_size \div align
               s1 == find_best_mapping_scheme_impl(scheme, vaddr, paddr, pa_offset, level + 1)
               s2 == IF ~s1.ok \/ page_count = 0 THEN s1
                     ELSE IF Len(s1.spans) >= MAX_MAPPING_SPANS THEN [s1 EXCEPT !.ok = FALSE]
                     ELSE [s1 EXCEPT !.spans = Append(@, [tag |-> SpanTags[level + 1],
                                                           count |-> page_count])]
           IN IF current_span_size = 0 \/ ~ValidVirtualAddress(align_up(vaddr, align))
              THEN [scheme EXCEPT !.ok = FALSE]
              ELSE find_best_mapping_scheme_impl(
                     s2,
                     align_up(vaddr, align) + current_span_size,
                     current_span_paddr + current_span_size,
                     size - current_span_size - pa_offset,
                     level + 1)
         ELSE find_best_mapping_scheme_impl(scheme, vaddr, paddr, size, level + 1)

find_best_mapping_scheme(vaddr, paddr, size) ==
    IF ~is_aligned(vaddr, GRANULE_SIZE) \/ ~is_aligned(paddr, GRANULE_SIZE)
    THEN [spans |-> <<>>, ok |-> FALSE]
    ELSE find_best_mapping_scheme_impl([spans |-> <<>>, ok |-> TRUE], vaddr, paddr, size, 0)

(* bytes covered by one span *)
SpanGranule(span) ==
    CASE span.tag = "OneGiB" -> ONE_GIB
      [] span.tag = "TwoMiB" -> TWO_MIB
      [] span.tag = "FourKiB" -> FOUR_KIB
SpanLength(span) == span.count * SpanGranule(span)

RECURSIVE SumSpans(_)
SumSpans(spans) == IF spans = <<>> THEN 0 ELSE SpanLength(Head(spans)) + SumSpans(Tail(spans))

---------------------------------------------------------------------------
(* translation_table.rs: installing descriptors.  A walk works on          *)
(*   [tbl, free, map, res]                                                  *)
(* where map is the ParsedMemoryMap being consumed and res is "Ok" until    *)
(* the walk returns an error or panics.  Table 0 is the root; the other     *)
(* tables are the pages handed out by the descriptor allocator.             *)

RootTable == 0
TableIds == 0 .. MaxTables
AllocTableIds == 1 .. MaxTables
Slots == 0 .. (NUM_TABLE_DESC_ENTRIES - 1)
EmptyTable == [i \in Slots |-> INVALID_DESCRIPTOR]

load_desc(t, descs, idx) == t[descs][idx]

(* PhysicalPageAllocator::allocate_zeroed: the lowest free page, zero filled *)
allocate_zeroed(fr) == IF fr = {} THEN 0 ELSE CHOOSE p \in fr : \A q \in fr : p <= q

parse_memory_map(m) ==
    [phy_addr |-> m.phy_addr, virt_addr |-> m.virt_addr, num_pages |-> m.num_pages,
     attributes |-> parse_map_attrs(m.access_permissions, m.kind)]

(* The 64-bit stores a walk makes, in program order, are logged in         *)
(* `stores`: [tbl, idx, desc] is `tbl[idx] = desc`.                         *)
StoreOf(descs, idx, desc) == [tbl |-> descs, idx |-> idx, desc |-> desc]

(* the stores of the zero fill of a page, slot by slot *)
zero_fill(descs) ==
    [i \in 1 .. NUM_TABLE_DESC_ENTRIES |-> StoreOf(descs, i - 1, INVALID_DESCRIPTOR)]

(* the closure handed to install_contigious_mappings by each installer *)
new_stage1_descriptor(target, output_address, attributes) ==
    IF target = 3 THEN new_stage1_page_desc(output_address, attributes)
    ELSE new_stage1_block_desc(target, output_address, attributes)

(* the same loop without the assert_eq!(load_desc(..), INVALID_DESCRIPTOR)  *)
(* in front of each store: a slot that holds a descriptor is overwritten    *)
RECURSIVE install_contigious_loop_unchecked(_, _, _, _, _, _, _, _)
install_contigious_loop_unchecked(t, descs, idx, i, n, paddr, target, attributes) ==
    IF i >= n THEN [tbl |-> t, ok |-> TRUE]
    ELSE install_contigious_loop_unchecked(
           [t EXCEPT ![descs][idx + i] = new_stage1_descriptor(target, paddr, attributes)],
           descs, idx, i + 1, n, paddr + get_vaddr_spacing_per_entry(target),
           target, attributes)

(* the loop of install_contigious_mappings from slot idx + i on *)
RECURSIVE install_contigious_loop(_, _, _, _, _, _, _, _)
install_contigious_loop(t, descs, idx, i, n, paddr, target, attributes) ==
    IF i >= n THEN [tbl |-> t, ok |-> TRUE]
    ELSE IF load_desc(t, descs, idx + i) # INVALID_DESCRIPTOR
              \/ ~desc_ctor_asserts(get_vaddr_spacing_per_entry(target), paddr)
         THEN [tbl |-> t, ok |-> FALSE]
         ELSE install_contigious_loop(
                [t EXCEPT ![descs][idx + i] = new_stage1_descriptor(target, paddr, attributes)],
                descs, idx, i + 1, n, paddr + get_vaddr_spacing_per_entry(target),
                target, attributes)

install_contigious_mappings(s, idx, descs, target) ==
    LET page_size == get_vaddr_spacing_per_entry(target)
        num_mapped_pages == Min(s.map.num_pages, NUM_TABLE_DESC_ENTRIES - idx)
        w == install_contigious_loop(s.tbl, descs, idx, 0, num_mapped_pages,
                                     s.map.phy_addr, target, s.map.attributes)
        written == Cardinality({i \in 0 .. num_mapped_pages - 1 :
                                  w.tbl[descs][idx + i] # s.tbl[descs][idx + i]})
        stored == [i \in 1 .. written |->
                     StoreOf(descs, idx + i - 1, w.tbl[descs][idx + i - 1])]
    IN IF ~w.ok THEN [s EXCEPT !.tbl = w.tbl, !.stores = @ \o stored, !.res = "Panic"]
       ELSE [s EXCEPT !.tbl = w.tbl,
                      !.stores = @ \o stored,
                      !.map.phy_addr = @ + num_mapped_pages * page_size,
                      !.map.virt_addr = @ + num_mapped_pages * page_size,
                      !.map.num_pages = @ - num_mapped_pages]

(* a slot is pointed at the lowest free page, which stays free *)
link_free_page(s, descs, idx) ==
    LET next_level_table == allocate_zeroed(s.free)
    IN IF s.free = {} THEN [s EXCEPT !.res = "PhysicalOOM"]
       ELSE [s EXCEPT !.tbl = [@ EXCEPT ![next_level_table] = EmptyTable,
                                        ![descs][idx] = new_stage1_table_desc(next_level_table)]]

(* install_new_tbl_desc: allocate a zeroed table and point slot idx of descs at it *)
install_new_tbl_desc(s, descs, idx) ==
    LET next_level_table == allocate_zeroed(s.free)
    IN IF s.free = {} THEN [s EXCEPT !.res = "PhysicalOOM"]
       ELSE [s EXCEPT !.free = @ \ {next_level_table},
                      !.tbl = [@ EXCEPT ![next_level_table] = EmptyTable,
                                        ![descs][idx] = new_stage1_table_desc(next_level_table)],
                      !.stores = @ \o zero_fill(next_level_table)
                                   \o <<StoreOf(descs, idx,
                                                new_stage1_table_desc(next_level_table))>>]

(* The walk shared by install_page_descs (target 3), install_l2_block_desc  *)
(* (target 2) and install_l1_block_desc (target 1), from `level` down.      *)
RECURSIVE install_descs(_, _, _, _)
install_descs(s, target, level, descs) ==
    LET idx == get_idx_for_level(s.map.virt_addr, level)
        desc == load_desc(s.tbl, descs, idx)
        parsed == parse_desc(desc, level)
    IN CASE parsed = "Err" -> [s EXCEPT !.res = "CorruptedTranslationTable"]
         [] parsed = "Table" -> install_descs(s, target, level + 1, desc.addr)
         [] parsed = "Block" ->
               IF target = 1 /\ level # 1
               THEN [s EXCEPT !.res = "CorruptedTranslationTable"]
               ELSE [s EXCEPT !.res = "VMMapExists"]
         [] parsed = "Page" ->
               IF target = 3 THEN [s EXCEPT !.res = "VMMapExists"]
               ELSE [s EXCEPT !.res = "CorruptedTranslationTable"]
         [] parsed = "Invalid" ->
               IF level < target
               THEN LET s1 == install_new_tbl_desc(s, descs, idx)
                    IN IF s1.res # "Ok" THEN s1
                       ELSE install_descs(s1, target, level + 1, s1.tbl[descs][idx].addr)
               ELSE IF level = target
               THEN install_contigious_mappings(s, idx, descs, target)
               ELSE [s EXCEPT !.res = "CorruptedTranslationTable"]

install_page_descs(s) == install_descs(s, 3, 0, RootTable)
install_l2_block_desc(s) == install_descs(s, 2, 0, RootTable)
install_l1_block_desc(s) == install_descs(s, 1, 0, RootTable)

SpanTarget(span) ==
    CASE span.tag = "OneGiB" -> 1
      [] span.tag = "TwoMiB" -> 2
      [] span.tag = "FourKiB" -> 3

(* map_impl: `while map.num_pages > 0 { install(...)? }` for one span *)
RECURSIVE map_span(_, _)
map_span(s, target) ==
    IF s.res # "Ok" \/ s.map.num_pages = 0 THEN s
    ELSE map_span(CASE target = 3 -> install_page_descs(s)
                    [] target = 2 -> install_l2_block_desc(s)
                    [] target = 1 -> install_l1_block_desc(s),
                  target)

RECURSIVE map_spans(_, _)
map_spans(s, spans) ==
    IF s.res # "Ok" \/ spans = <<>> THEN s
    ELSE map_spans(map_span([s EXCEPT !.map.num_pages = Head(spans).count],
                            SpanTarget(Head(spans))),
                   Tail(spans))

(* map_impl on tables t with free pages fr; result [tbl, free, map, res] *)
map_impl(t, fr, map) ==
    LET map_scheme == find_best_mapping_scheme(map.virt_addr, map.phy_addr,
                                               map.num_pages * GRANULE_SIZE)
        s0 == [tbl |-> t, free |-> fr, map |-> [map EXCEPT !.num_pages = 0], res |-> "Ok",
               stores |-> <<>>]
    IN IF ~map_scheme.ok THEN [s0 EXCEPT !.res = "Panic"]
       ELSE map_spans(s0, map_scheme.spans)

map(t, fr, m) == map_impl(t, fr, parse_memory_map(m))

(* virt2phy: the walk a CPU does after a TLB miss *)
NoTranslation == [found |-> FALSE]

to_translation_desc(vaddr, ll_desc, level) ==
    [found |-> TRUE, virt_addr |-> vaddr,
     phy_addr |-> parse_output_address(ll_desc, level),
     access_perms |-> parse_access_perms(ll_desc),
     memory_kind |-> memory_kind_of(ll_desc)]

RECURSIVE virt2phy_from(_, _, _, _)
virt2phy_from(t, vaddr, level, descs) ==
    LET desc == load_desc(t, descs, get_idx_for_level(vaddr, level))
        parsed == parse_desc(desc, level)
    IN CASE parsed = "Table" -> virt2phy_from(t, vaddr, level + 1, desc.addr)
         [] parsed \in {"Block", "Page"} -> to_translation_desc(vaddr, desc, level)
         [] OTHER -> NoTranslation

virt2phy(t, vaddr) == virt2phy_from(t, vaddr, 0, RootTable)

---------------------------------------------------------------------------
(* The address space as a state machine *)

NoIter == [active |-> FALSE]
NoYield == [kind |-> "Nothing"]
NoCall == [op |-> "none"]
Idle == [phase |-> "idle"]

(* a MemoryMap: MemoryMap::Normal(MapDesc) or MemoryMap::Device(MapDesc) *)
MemoryMap(kind, phy_addr, virt_addr, num_pages, access_permissions) ==
    [kind |-> kind, phy_addr |-> phy_addr, virt_addr |-> virt_addr,
     num_pages |-> num_pages, access_permissions |-> access_permissions]

VAddr(sel, page) == sel * VaSpace + page * FOUR_KIB
MapEnd(m) == m.virt_addr + m.num_pages * GRANULE_SIZE

(* page-aligned requests that end inside the half of the address space they start in *)
MapRequests(sel, kinds, perms) ==
    { m \in { MemoryMap(k, pp * FOUR_KIB, VAddr(sel, vp), n, ap) :
                k \in kinds, pp \in 0 .. MaxPhyPage, vp \in 0 .. MaxVaPage,
                n \in 1 .. MaxMapPages, ap \in perms } :
        MapEnd(m) < (sel + 1) * VaSpace }

InitTables ==
    /\ ttbr \in {0, SelOnes}
    /\ tbl = [id \in TableIds |-> EmptyTable]
    /\ pool = AllocTableIds
    /\ iter = NoIter
    /\ yielded = NoYield
    /\ last = NoCall
    /\ hist = <<>>
    /\ panicked = FALSE
    /\ calls = <<>>
    /\ ntrav = 0

Init ==
    /\ InitTables
    /\ planner = Idle
    /\ storage = Idle

(* TranslationTable::map: the whole call, whatever it returns *)
MapCall(requests) ==
    /\ ~panicked
    /\ ~iter.active
    /\ Len(calls) < MaxMaps
    /\ \E m \in requests :
         LET r == map(tbl, pool, m)
         IN /\ tbl' = r.tbl
            /\ pool' = r.free
            /\ panicked' = (r.res = "Panic")
            /\ calls' = Append(calls, [m |-> m, res |-> r.res])
            /\ last' = [op |-> "map", m |-> m, res |-> r.res]
    /\ UNCHANGED <<ttbr, iter, yielded, hist, ntrav, planner, storage>>

Map == MapCall(MapRequests(ttbr, {"Normal", "Device"}, {normal_memory_default}))

Next == Map

Spec == Init /\ [][Next]_vars

---------------------------------------------------------------------------
(* One map call with any requestable permission set and kind *)

MaxPermVaPage == 2
MaxPermPages == 2

PermRequests(sel) ==
    { MemoryMap(k, 0, VAddr(sel, vp), n, ap) :
        k \in {"Normal", "Device"}, vp \in 0 .. MaxPermVaPage,
        n \in 1 .. MaxPermPages, ap \in AllAccessPermissions }

PermMap == calls = <<>> /\ MapCall(PermRequests(ttbr))

NextPerms == PermMap

SpecPerms == Init /\ [][NextPerms]_vars

---------------------------------------------------------------------------
(* The planner on its own: the input is drawn at Init, Plan runs it *)

MaxPlanVaPage == 9
MaxPlanPhyPage == 9
MaxPlanPages == 9

PlannerInputs ==
    { [phase |-> "input", vaddr |-> VAddr(sel, vp), paddr |-> pp * FOUR_KIB,
       size |-> n * GRANULE_SIZE] :
        sel \in {0, SelOnes}, vp \in 0 .. MaxPlanVaPage, pp \in 0 .. MaxPlanPhyPage,
        n \in 0 .. MaxPlanPages }

InitPlanner ==
    /\ InitTables
    /\ planner \in PlannerInputs
    /\ storage = Idle

Plan ==
    /\ planner.phase = "input"
    /\ planner' = [planner EXCEPT !.phase = "done"] @@
                  [scheme |-> find_best_mapping_scheme(planner.vaddr, planner.paddr, planner.size)]
    /\ UNCHANGED <<ttbr, tbl, pool, iter, yielded, last, hist, panicked, calls, ntrav, storage>>

NextPlanner == Plan

SpecPlanner == InitPlanner /\ [][NextPlanner]_vars

---------------------------------------------------------------------------
(* vm/buddy.rs: the buddy allocator.  Addresses and sizes are in bytes; a   *)
(* block of level l has 2^l bytes.  The allocator state is                   *)
(*   zero_page, start_page, end_page                                        *)
(*   free_list : level -> sequence of block addresses (front .. back)       *)
(*   map       : level -> set of the free-map bit indexes that are 1        *)
(*   res       : result of the call that produced the state                 *)

MinLevel == 1
MaxLevel == 4
BuddyLevels == MinLevel .. MaxLevel
FreeMapWordBits == 8

RECURSIVE Pow2(_)
Pow2(n) == IF n = 0 THEN 1 ELSE 2 * Pow2(n - 1)

is_power_of_two(n) == \E k \in 0 .. (MaxLevel + 2) : n = Pow2(k)
ilog2(n) == CHOOSE k \in 0 .. (MaxLevel + 2) : Pow2(k) <= n /\ n < Pow2(k + 1)
next_multiple_of(n, m) == IF n % m = 0 THEN n ELSE n + (m - (n % m))

(* FreeArea::free_map_size_for: bytes of the free map of a level *)
free_map_size_for(level, max_level) ==
    next_multiple_of(Pow2(max_level - level), FreeMapWordBits) \div FreeMapWordBits

(* FreeArea::flip_bit with get_word_and_mask: toggles the bit of the pair    *)
(* that holds block and reports in `flag` whether the bit is now clear.  The *)
(* subtraction and the slice index are checked.                              *)
flip_bit(b, level, block) ==
    LET addr == block - b.zero_page
        idx == (addr \div Pow2(level)) \div 2
        word == idx \div FreeMapWordBits
    IN IF block < b.zero_page \/ word >= free_map_size_for(level, MaxLevel)
       THEN [b EXCEPT !.res = "Panic"] @@ [flag |-> FALSE]
       ELSE [b EXCEPT !.map[level] = IF idx \in @ THEN @ \ {idx} ELSE @ \cup {idx}]
            @@ [flag |-> idx \in b.map[level]]

Unflag(b) == [f \in DOMAIN b \ {"flag"} |-> b[f]]
mark_used(b, level, block) == Unflag(flip_bit(b, level, block))
mark_free(b, level, block) == flip_bit(b, level, block)

(* Storage::get_buddy_ptr: the neighbour by absolute address *)
get_buddy_ptr(block, level) ==
    LET q == block \div Pow2(level)
    IN (IF q % 2 = 0 THEN q + 1 ELSE q - 1) * Pow2(level)

get_smaller(block, buddy) == IF block < buddy THEN block ELSE buddy

(* the loop of Storage::add that puts count blocks of one level on its list *)
RECURSIVE add_blocks(_, _, _, _, _)
add_blocks(b, level, mem_start, i, count) ==
    IF b.res # "Ok" \/ i >= count THEN b
    ELSE LET block == mem_start + i * Pow2(level)
             pushed == [b EXCEPT !.free_list[level] = Append(@, block)]
         IN add_blocks(Unflag(mark_free(pushed, level, block)), level, mem_start, i + 1, count)

(* Storage::add *)
RECURSIVE add(_, _, _, _)
add(b, level, mem_start, mem_end) ==
    LET level_size == Pow2(level)
        offset == align_offset(mem_start, level_size)
        mem_start_cur_level == Min(align_up(mem_start, level_size), mem_end)
        b1 == IF offset # 0 THEN add(b, level - 1, mem_start, mem_start_cur_level) ELSE b
        count == IF mem_start_cur_level >= mem_end THEN 0
                 ELSE (mem_end - mem_start_cur_level) \div level_size
        b2 == IF count > 0 /\ level < MinLevel THEN [b1 EXCEPT !.res = "Panic"]
              ELSE add_blocks(b1, level, mem_start_cur_level, 0, count)
        rest == mem_start_cur_level + count * level_size
    IN IF b1.res # "Ok" \/ mem_start_cur_level >= mem_end THEN b1
       ELSE IF b2.res # "Ok" \/ rest = mem_end THEN b2
       ELSE add(b2, level - 1, rest, mem_end)

(* Storage::init once the metadata has been carved off the front of the     *)
(* region: start_page and end_page are multiples of the smallest block      *)
Storage_init(start_page, end_page) ==
    add([zero_page |-> align_down(start_page, Pow2(MaxLevel)),
         start_page |-> start_page, end_page |-> end_page,
         free_list |-> [l \in BuddyLevels |-> <<>>],
         map |-> [l \in BuddyLevels |-> {}],
         res |-> "Ok"],
        MaxLevel, start_page, end_page)

(* the block found is handed out whole *)
alloc_whole_block(b, block, level, start_level) == b

(* BuddyAllocator::alloc: the split loop below the level a block was found at *)
RECURSIVE alloc_split(_, _, _, _)
alloc_split(b, block, level, start_level) ==
    IF b.res # "Ok" \/ level = start_level THEN b
    ELSE IF get_buddy_ptr(block, level - 1) >= b.end_page THEN [b EXCEPT !.res = "Panic"]
    ELSE alloc_split(
           mark_used([b EXCEPT !.free_list[level - 1] = Append(@, get_buddy_ptr(block, level - 1))],
                     level - 1, block),
           block, level - 1, start_level)

(* BuddyAllocator::alloc; the result carries the returned address in ptr *)
alloc(b, size) ==
    IF ~is_power_of_two(size) THEN [b EXCEPT !.res = "AllocError"] @@ [ptr |-> 0]
    ELSE
      LET start_level == Max(ilog2(size), MinLevel)
          nonempty == { l \in start_level .. MaxLevel : b.free_list[l] # <<>> }
      IN IF nonempty = {} THEN [b EXCEPT !.res = "PhysicalOOM"] @@ [ptr |-> 0]
         ELSE
           LET level == CHOOSE l \in nonempty : \A k \in nonempty : l <= k
               list == b.free_list[level]
               block == list[Len(list)]
               popped == [b EXCEPT !.free_list[level] = SubSeq(list, 1, Len(list) - 1)]
           IN alloc_split(mark_used(popped, level, block), block, level, start_level)
              @@ [ptr |-> block]

RemoveFromList(list, x) == SelectSeq(list, LAMBDA y : y # x)
OnList(list, x) == \E i \in DOMAIN list : list[i] = x

(* the block goes back on the list of its own level and stays there *)
free_without_merge(b, block, level) == [b EXCEPT !.free_list[level] = Append(@, block)]

(* BuddyAllocator::free: the loop from `level` up.  res = "UB" with the      *)
(* level in `at` when the block taken for the buddy is not on that level's   *)
(* free list: its link field is then read from memory the allocator does     *)
(* not own as a free block, and the list is edited through it.               *)
RECURSIVE free_from(_, _, _)
free_from(b, block, level) ==
    IF level > MaxLevel THEN b
    ELSE
      LET f == mark_free(b, level, block)
          b1 == Unflag(f)
          buddy == get_buddy_ptr(block, level)
      IN IF f.res # "Ok" THEN b1
         ELSE IF ~f.flag THEN [b1 EXCEPT !.free_list[level] = Append(@, block)]
         ELSE IF buddy >= b.end_page THEN [b1 EXCEPT !.res = "Panic"]
         ELSE IF ~OnList(b1.free_list[level], buddy) THEN [b1 EXCEPT !.res = "UB", !.at = level]
         ELSE free_from([b1 EXCEPT !.free_list[level] = RemoveFromList(@, buddy)],
                        get_smaller(block, buddy), level + 1)

free(b, ptr, size) ==
    IF size = 0 THEN [b EXCEPT !.res = "Panic"]
    ELSE IF \/ b.start_page > ptr
            \/ b.end_page < ptr + size
            \/ ~is_power_of_two(size)
            \/ Max(ilog2(size), MinLevel) > MaxLevel
         THEN [b EXCEPT !.res = "AllocError"]
         ELSE free_from(b, ptr, Max(ilog2(size), MinLevel))

(* get_free_area_information: number of free blocks of each size *)
get_free_area_information(b) == [l \in BuddyLevels |-> Len(b.free_list[l])]

---------------------------------------------------------------------------
(* The buddy allocator as a state machine *)

MaxStartUnits == 1
MaxRegionUnits == 25
MaxBuddyOps == 4

MinBlock == Pow2(MinLevel)
MaxBlock == Pow2(MaxLevel)
ZeroPageBlocks == {2, 3}
AllocSizes == { Pow2(l) : l \in 0 .. MaxLevel } \cup {3}

(* what is left of a region after the metadata: [start_page, end_page) *)
BuddyRegions ==
    { [start_page |-> z * MaxBlock + i * MinBlock,
       end_page |-> z * MaxBlock + i * MinBlock + n * MinBlock] :
        z \in ZeroPageBlocks, i \in 0 .. MaxStartUnits, n \in 1 .. MaxRegionUnits }

BlockSize(size) == Pow2(Max(ilog2(size), MinLevel))
BlockRange(o) == o.ptr .. (o.ptr + BlockSize(o.size) - 1)

(* lists a free list can be left as when it was edited through a link that  *)
(* was not on it                                                            *)
CorruptLists(b, level) ==
    {b.free_list[level], <<>>} \cup
    { <<x>> : x \in { a \in b.start_page .. (b.end_page - 1) :
                        a % Pow2(level) = 0 /\ a + Pow2(level) <= b.end_page } }

InitBuddy ==
    /\ ttbr = 0
    /\ tbl = [id \in TableIds |-> EmptyTable]
    /\ pool = AllocTableIds
    /\ iter = NoIter
    /\ yielded = NoYield
    /\ last = NoCall
    /\ hist = <<>>
    /\ panicked = FALSE
    /\ calls = <<>>
    /\ ntrav = 0
    /\ planner = Idle
    /\ storage = Idle

BuddyUnchanged == UNCHANGED <<ttbr, tbl, pool, iter, yielded, last, hist, panicked, calls, ntrav, planner>>

(* BuddyAllocator::manage *)
Manage ==
    /\ storage.phase = "idle"
    /\ \E r \in BuddyRegions :
         LET b == Storage_init(r.start_page, r.end_page) @@ [at |-> 0]
         IN storage' = [phase |-> "managed", st |-> b, outstanding |-> {},
                        initial |-> get_free_area_information(b), nops |-> 0,
                        lastop |-> [op |-> "manage", res |-> b.res]]
    /\ BuddyUnchanged

BuddyLive ==
    /\ storage.phase = "managed"
    /\ storage.lastop.res # "Panic"
    /\ storage.nops < MaxBuddyOps

(* one call of alloc by the owner of the allocator *)
Alloc ==
    /\ BuddyLive
    /\ \E size \in AllocSizes :
         LET r == alloc(storage.st, size)
             b == [f \in DOMAIN storage.st |-> IF f = "res" THEN "Ok" ELSE r[f]]
         IN storage' = [storage EXCEPT
                          !.st = IF r.res \in {"Ok", "Panic"} THEN b ELSE @,
                          !.nops = @ + 1,
                          !.outstanding = IF r.res = "Ok"
                                          THEN @ \cup {[id |-> storage.nops, ptr |-> r.ptr, size |-> size]}
                                          ELSE @,
                          !.lastop = [op |-> "alloc", size |-> size, res |-> r.res, ptr |-> r.ptr]]
    /\ BuddyUnchanged

(* one call of free of an outstanding block with the size it was allocated with *)
Free ==
    /\ BuddyLive
    /\ \E o \in storage.outstanding :
         LET r == free(storage.st, o.ptr, o.size)
         IN \/ /\ r.res # "UB"
               /\ storage' = [storage EXCEPT
                                !.st = [r EXCEPT !.res = "Ok"],
                                !.nops = @ + 1,
                                !.outstanding = IF r.res = "Ok" THEN @ \ {o} ELSE @,
                                !.lastop = [op |-> "free", size |-> o.size, res |-> r.res, ptr |-> o.ptr]]
            \/ /\ r.res = "UB"
               /\ storage' = [storage EXCEPT
                                !.nops = @ + 1,
                                !.lastop = [op |-> "free", size |-> o.size, res |-> "Panic", ptr |-> o.ptr]]
            \/ /\ r.res = "UB"
               /\ \E list \in CorruptLists(r, r.at) :
                    storage' = [storage EXCEPT
                                  !.st = [r EXCEPT !.res = "Ok", !.free_list[r.at] = list],
                                  !.nops = @ + 1,
                                  !.outstanding = @ \ {o},
                                  !.lastop = [op |-> "free", size |-> o.size, res |-> "UB", ptr |-> o.ptr]]
    /\ BuddyUnchanged

NextBuddy == Manage \/ Alloc \/ Free

SpecBuddy == InitBuddy /\ [][NextBuddy]_vars

---------------------------------------------------------------------------
(* translation_table.rs: TraverseIterator.  The iterator is a record        *)
(*   va_rng, va_space_explored, empty_descs, stash,                         *)
(*   should_free_empty_descs, state                                         *)
(* and a walk works on [it, tbl, panic], because freeing an empty table     *)
(* clears its slot in the parent.  Levels are 0 .. 3, so the table of       *)
(* level l is stash[l + 1].                                                 *)

stash_last(it) == it.stash[Len(it.stash)]
stash_level(it) == Len(it.stash) - 1

RECURSIVE find_next_valid_entry(_, _, _, _, _)
find_next_valid_entry(it, t, descs, level, idx) ==
    IF idx < NUM_TABLE_DESC_ENTRIES
    THEN LET it1 == [it EXCEPT !.va_space_explored = set_idx_for_level(@, level, idx)]
         IN IF it1.va_space_explored < it1.va_rng.end
            THEN IF to_raw_desc(load_desc(t, descs, idx)) = "Invalid"
                 THEN find_next_valid_entry(it1, t, descs, level, idx + 1)
                 ELSE [it |-> it1, found |-> TRUE]
            ELSE [it |-> it1, found |-> FALSE]
    ELSE [it |-> it, found |-> FALSE]

(* an empty table is handed out while its parent still points to it *)
free_descs_keep_slot(w, descs, level) ==
    IF ~w.it.should_free_empty_descs \/ level = 0 THEN w
    ELSE IF \E idx \in Slots : load_desc(w.tbl, descs, idx).valid THEN w
    ELSE IF Len(w.it.empty_descs) >= MAX_TRANSLATION_LEVELS
         THEN [w EXCEPT !.panic = TRUE]
         ELSE [w EXCEPT !.it.empty_descs = Append(@, descs)]

free_descs_if_empty(w, descs, level) ==
    IF ~w.it.should_free_empty_descs \/ level = 0 THEN w
    ELSE IF \E idx \in Slots : load_desc(w.tbl, descs, idx).valid THEN w
    ELSE LET parent_level == level - 1
             parent == w.it.stash[parent_level + 1]
             parent_idx == get_idx_for_level(w.it.va_space_explored, parent_level)
             cleared == [w EXCEPT !.tbl[parent][parent_idx] = INVALID_DESCRIPTOR]
         IN IF Len(w.it.empty_descs) >= MAX_TRANSLATION_LEVELS
            THEN [cleared EXCEPT !.panic = TRUE]
            ELSE [cleared EXCEPT !.it.empty_descs = Append(@, descs)]

(* ascend: pop a table, free it if empty; the stash tells whether to go on *)
ascend(w) ==
    LET level == stash_level(w.it)
        descs == stash_last(w.it)
        popped == [w EXCEPT !.it.stash = SubSeq(@, 1, Len(@) - 1)]
        freed == free_descs_if_empty(popped, descs, level)
    IN [freed EXCEPT !.it.va_space_explored = clear_idx_for_level(@, level)]

(* `while self.ascend() {}` *)
RECURSIVE ascend_all(_)
ascend_all(w) ==
    LET w1 == ascend(w)
    IN IF w1.panic \/ w1.it.stash = <<>> THEN w1 ELSE ascend_all(w1)

(* the second loop of move_up *)
RECURSIVE move_up_loop(_)
move_up_loop(w) ==
    LET w1 == ascend(w)
        parent == stash_last(w1.it)
        parent_level == stash_level(w1.it)
        parent_idx == get_idx_for_level(w1.it.va_space_explored, parent_level)
        f == find_next_valid_entry(w1.it, w1.tbl, parent, parent_level, parent_idx + 1)
    IN IF w1.panic THEN w1
       ELSE IF w1.it.stash = <<>> THEN [w1 EXCEPT !.it.state = "Halt"]
       ELSE IF f.found THEN [w1 EXCEPT !.it = [f.it EXCEPT !.state = "Load"]]
       ELSE move_up_loop([w1 EXCEPT !.it = f.it])

move_up(w) ==
    IF w.it.va_space_explored >= w.it.va_rng.end
    THEN [ascend_all(w) EXCEPT !.it.state = "Halt"]
    ELSE move_up_loop(w)

move_right(w) ==
    LET descs == stash_last(w.it)
        level == stash_level(w.it)
        idx == get_idx_for_level(w.it.va_space_explored, level)
        f == find_next_valid_entry(w.it, w.tbl, descs, level, idx + 1)
    IN IF ~(w.it.va_space_explored < w.it.va_rng.end) THEN [w EXCEPT !.panic = TRUE]
       ELSE IF f.found THEN [w EXCEPT !.it = [f.it EXCEPT !.state = "Load"]]
       ELSE move_up([w EXCEPT !.it = f.it])

step(w) ==
    LET descs == stash_last(w.it)
        level == stash_level(w.it)
        idx == get_idx_for_level(w.it.va_space_explored, level)
        desc == load_desc(w.tbl, descs, idx)
        parsed == parse_desc(desc, level)
    IN IF ~(w.it.va_space_explored < w.it.va_rng.end) THEN [w EXCEPT !.panic = TRUE]
       ELSE IF parsed = "Err" THEN [w EXCEPT !.it.state = "Err"]
       ELSE IF parsed = "Table"
       THEN IF Len(w.it.stash) >= MAX_TRANSLATION_LEVELS THEN [w EXCEPT !.panic = TRUE]
            ELSE [w EXCEPT !.it.stash = Append(@, desc.addr), !.it.state = "Load"]
       ELSE move_right(w)

(* PhysicalBlockOverlapInfo::new; `as u32` keeps the value modulo the range of a u32 *)
PhysicalBlockOverlapInfo(it, paddr, vaddr, block_size, desc_tbl, desc_idx) ==
    LET vaddr_end == vaddr + block_size
        va_space_overlap_start == Max(vaddr, it.va_rng.start)
        va_space_overlap_end == Min(vaddr_end, it.va_rng.end)
    IN [kind |-> "PhysicalBlock", phy_block |-> paddr, vaddr |-> vaddr,
        size |-> block_size % U32Range,
        overlap |-> [start |-> (va_space_overlap_start - vaddr) % U32Range,
                     end |-> (va_space_overlap_end - vaddr) % U32Range],
        desc_tbl |-> desc_tbl, desc_idx |-> desc_idx]

create_phy_block_info(it, t, descs, level, idx) ==
    PhysicalBlockOverlapInfo(it, parse_output_address(load_desc(t, descs, idx), level),
                             it.va_space_explored,
                             get_vaddr_spacing_per_entry(level), descs, idx)

(* load_block: "Block" with the info, "NoBlock", or "Panic" *)
load_block(w) ==
    LET descs == stash_last(w.it)
        level == stash_level(w.it)
        idx == get_idx_for_level(w.it.va_space_explored, level)
        parsed == parse_desc(load_desc(w.tbl, descs, idx), level)
    IN IF parsed = "Err" \/ (parsed \in {"Block", "Page"}
                             /\ ~(w.it.va_space_explored < w.it.va_rng.end))
       THEN [kind |-> "Panic"]
       ELSE IF parsed \in {"Block", "Page"}
       THEN create_phy_block_info(w.it, w.tbl, descs, level, idx)
       ELSE [kind |-> "NoBlock"]

(* fetch_block: runs the state machine until it has something to return *)
RECURSIVE fetch_block(_)
fetch_block(w) ==
    IF w.panic THEN [w |-> w, item |-> [kind |-> "Panic"]]
    ELSE IF w.it.stash = <<>> THEN [w |-> w, item |-> [kind |-> "None"]]
    ELSE CASE w.it.state = "Load" ->
                LET b == load_block(w)
                IN IF b.kind = "Panic" THEN [w |-> [w EXCEPT !.panic = TRUE], item |-> b]
                   ELSE IF b.kind = "PhysicalBlock"
                   THEN [w |-> [w EXCEPT !.it.state = "MoveRight"], item |-> b]
                   ELSE fetch_block([w EXCEPT !.it.state = "Step"])
           [] w.it.state = "MoveRight" -> fetch_block(move_right(w))
           [] w.it.state = "Step" -> fetch_block(step(w))
           [] w.it.state = "Halt" -> [w |-> w, item |-> [kind |-> "None"]]
           [] w.it.state = "Err" -> [w |-> w, item |-> [kind |-> "Err"]]

(* Iterator::next *)
next(w) ==
    IF w.it.empty_descs # <<>>
    THEN [w |-> [w EXCEPT !.it.empty_descs = SubSeq(@, 1, Len(@) - 1)],
          item |-> [kind |-> "UnusedMemory",
                    table |-> w.it.empty_descs[Len(w.it.empty_descs)]]]
    ELSE fetch_block(w)

(* the loop of begin, from `level` down *)
RECURSIVE begin_from(_, _, _, _)
begin_from(it, t, level, descs) ==
    LET vaddr == it.va_rng.start
        idx == get_idx_for_level(vaddr, level)
        desc == load_desc(t, descs, idx)
        parsed == parse_desc(desc, level)
        it1 == [it EXCEPT !.va_space_explored = set_idx_for_level(@, level, idx),
                          !.stash = Append(@, descs)]
    IN IF parsed = "Err" THEN [it1 EXCEPT !.state = "Err"]
       ELSE IF parsed = "Table" THEN begin_from(it1, t, level + 1, desc.addr)
       ELSE [it1 EXCEPT !.state = "Load"]

(* TraverseIterator::new with begin; panic is the assertion that ends begin *)
TraverseIterator_new(t, va_rng, should_free_empty_descs) ==
    LET it0 == [va_rng |-> va_rng, va_space_explored |-> 0, empty_descs |-> <<>>,
                stash |-> <<>>, should_free_empty_descs |-> should_free_empty_descs,
                state |-> "Halt"]
        it1 == IF va_rng.start >= va_rng.end THEN it0 ELSE begin_from(it0, t, 0, RootTable)
    IN [it |-> it1, tbl |-> t,
        panic |-> va_rng.start < va_rng.end /\ ~(it1.va_space_explored < va_rng.end)]

(* PhysicalBlockOverlapInfo::create_memory_map; none when the range holds no whole page *)
create_memory_map(info, rng, ll_desc) ==
    LET num_pages == (rng.end - rng.start) \div GRANULE_SIZE
    IN [none |-> num_pages = 0,
        m |-> MemoryMap(memory_kind_of(ll_desc), info.phy_block + rng.start,
                        info.vaddr + rng.start, num_pages, parse_access_perms(ll_desc))]

(* PhysicalBlockOverlapInfo::remove_overlapping_range; result [tbl, free, res] *)
remove_overlapping_range(t, fr, info) ==
    LET ll_desc == load_desc(t, info.desc_tbl, info.desc_idx)
        t0 == [t EXCEPT ![info.desc_tbl][info.desc_idx] = INVALID_DESCRIPTOR]
        first_rng == [start |-> 0, end |-> info.overlap.start]
        last_rng == [start |-> info.overlap.end, end |-> info.size]
        first == create_memory_map(info, first_rng, ll_desc)
        last_map == create_memory_map(info, last_rng, ll_desc)
        r1 == IF first.none THEN [tbl |-> t0, free |-> fr, res |-> "Ok"]
              ELSE map(t0, fr, first.m)
        r2 == IF last_map.none THEN r1 ELSE map(r1.tbl, r1.free, last_map.m)
    IN IF last_rng.end < last_rng.start THEN [tbl |-> t0, free |-> fr, res |-> "Panic"]
       ELSE IF r1.res # "Ok" THEN [tbl |-> r1.tbl, free |-> r1.free, res |-> r1.res]
       ELSE [tbl |-> r2.tbl, free |-> r2.free, res |-> r2.res]

---------------------------------------------------------------------------
(* Traversal by a caller.  The caller either only looks at the blocks or    *)
(* removes each one before asking for the next; it hands every UnusedMemory *)
(* table back to the page allocator, and drops the iterator when next()     *)
(* returns None or an error.                                                *)

MaxTraversals == 2
MaxTravPage == 5
MaxTravVaPage == 4
MaxTravPages == 4

TravAttributes == << <<"Normal", normal_memory_default>>, <<"Device", EL1_READ>> >>

(* requests of the caller that builds the table to be traversed: identity   *)
(* mapped, the k-th request with the k-th attributes                        *)
TravRequests(sel, k) ==
    { MemoryMap(TravAttributes[k][1], vp * FOUR_KIB, VAddr(sel, vp), n, TravAttributes[k][2]) :
        vp \in 0 .. MaxTravVaPage, n \in 1 .. MaxTravPages }

TravRanges(sel) ==
    { r \in { [start |-> VAddr(sel, a), end |-> VAddr(sel, b)] :
                a \in 0 .. MaxTravPage, b \in 0 .. MaxTravPage } : r.start < r.end }

(* the table is built before the first traversal, each request above the last one *)
TravMap ==
    /\ ntrav = 0
    /\ Len(calls) < Len(TravAttributes)
    /\ MapCall({ m \in TravRequests(ttbr, Len(calls) + 1) :
                   calls = <<>> \/ MapEnd(calls[Len(calls)].m) <= m.virt_addr })

(* TranslationTable::traverse.  After a traversal that removed the blocks of *)
(* a range the caller may look at the same range again.                    *)
Traverse ==
    /\ ~panicked
    /\ ~iter.active
    /\ ntrav < MaxTraversals
    /\ ntrav > 0 => last.op = "traverse" /\ last.mode = "remove"
    /\ \E r \in IF ntrav = 0 THEN TravRanges(ttbr) ELSE {last.range},
          flag \in IF ntrav = 0 THEN BOOLEAN ELSE {TRUE},
          mode \in IF ntrav = 0 THEN {"look", "remove"} ELSE {"look"} :
         LET w == TraverseIterator_new(tbl, r, flag)
         IN /\ iter' = w.it @@ [active |-> TRUE, mode |-> mode]
            /\ panicked' = w.panic
            /\ hist' = [range |-> r, flag |-> flag, mode |-> mode, pre |-> tbl,
                        blocks |-> <<>>, unused |-> <<>>, done |-> FALSE]
    /\ ntrav' = ntrav + 1
    /\ yielded' = NoYield
    /\ UNCHANGED <<ttbr, tbl, pool, last, calls, planner, storage>>

(* one call of next() on the live iterator *)
NextItem ==
    /\ ~panicked
    /\ iter.active
    /\ \/ yielded.kind \in {"Nothing", "Removed"}
       \/ yielded.kind = "PhysicalBlock" /\ iter.mode = "look"
    /\ LET r == next([it |-> iter, tbl |-> tbl, panic |-> FALSE])
       IN /\ iter' = r.w.it
          /\ tbl' = r.w.tbl
          /\ panicked' = r.w.panic
          /\ yielded' = r.item
          /\ hist' = CASE r.item.kind = "PhysicalBlock" -> [hist EXCEPT !.blocks = Append(@, r.item)]
                       [] r.item.kind = "UnusedMemory" -> [hist EXCEPT !.unused = Append(@, r.item.table)]
                       [] r.item.kind = "None" -> [hist EXCEPT !.done = TRUE]
                       [] OTHER -> hist
    /\ UNCHANGED <<ttbr, pool, last, calls, ntrav, planner, storage>>

(* the caller removes the block it was just given *)
Remove ==
    /\ ~panicked
    /\ iter.active
    /\ yielded.kind = "PhysicalBlock"
    /\ iter.mode = "remove"
    /\ LET r == remove_overlapping_range(tbl, pool, yielded)
       IN /\ tbl' = r.tbl
          /\ pool' = r.free
          /\ panicked' = (r.res = "Panic")
          /\ last' = [op |-> "remove", info |-> yielded, res |-> r.res, pre |-> tbl]
    /\ yielded' = [kind |-> "Removed"]
    /\ UNCHANGED <<ttbr, iter, hist, calls, ntrav, planner, storage>>

(* the caller hands an UnusedMemory table back to the page allocator *)
Dealloc ==
    /\ ~panicked
    /\ iter.active
    /\ yielded.kind = "UnusedMemory"
    /\ pool' = pool \cup {yielded.table}
    /\ yielded' = NoYield
    /\ UNCHANGED <<ttbr, tbl, iter, last, hist, panicked, calls, ntrav, planner, storage>>

(* the caller's loop ends at the first None (or error) and the iterator is dropped *)
Drop ==
    /\ ~panicked
    /\ iter.active
    /\ yielded.kind \in {"None", "Err"}
    /\ last' = [op |-> "traverse", range |-> hist.range, flag |-> hist.flag,
                mode |-> hist.mode, ended |-> yielded.kind,
                undelivered |-> iter.empty_descs,
                covered |-> \A v \in hist.range.start .. (hist.range.end - 1) :
                                virt2phy(hist.pre, v).found]
    /\ iter' = NoIter
    /\ yielded' = NoYield
    /\ UNCHANGED <<ttbr, tbl, pool, hist, panicked, calls, ntrav, planner, storage>>

NextTrav == TravMap \/ Traverse \/ NextItem \/ Remove \/ Dealloc \/ Drop

SpecTrav == Init /\ [][NextTrav]_vars

---------------------------------------------------------------------------
(* vm/buddy.rs: free called with arguments the allocator has to reject: a   *)
(* block that is not inside [start_page, end_page) or a size that is not a  *)
(* power of two                                                             *)

MaxRejectedAt == 2

RejectedFreeArgs(b) ==
    { a \in { [ptr |-> p, size |-> s] :
                p \in {b.start_page - MinBlock, b.start_page,
                       b.end_page - MinBlock, b.end_page},
                s \in {0, 3, MinBlock, 2 * MaxBlock} } :
        \/ a.ptr < b.start_page
        \/ a.ptr + a.size > b.end_page
        \/ ~is_power_of_two(a.size) }

(* one call of free with such arguments, among the first calls on the allocator *)
FreeRejected ==
    /\ BuddyLive
    /\ storage.nops < MaxRejectedAt
    /\ \E a \in RejectedFreeArgs(storage.st) :
         LET r == free(storage.st, a.ptr, a.size)
         IN storage' = [storage EXCEPT
                          !.st = [r EXCEPT !.res = "Ok"],
                          !.nops = @ + 1,
                          !.lastop = [op |-> "free", size |-> a.size, res |-> r.res,
                                      ptr |-> a.ptr, pre |-> storage.st]]
    /\ BuddyUnchanged

NextBuddyRejects == Manage \/ Alloc \/ Free \/ FreeRejected

SpecBuddyRejects == InitBuddy /\ [][NextBuddyRejects]_vars

---------------------------------------------------------------------------
(* The allocator created over a whole memory range: Storage::init carves    *)
(* its own metadata from the low end of the range.  The sizes of the        *)
(* metadata are scaled like the blocks: Storage and FreeArea are            *)
(* repr(align(64)) structs of one alignment unit each, a spin Mutex puts    *)
(* its lock word in front of the FreeArea and so takes two units.           *)

MetaAlign == 4
MemStep == 5
MaxMemUnits == 16
MemStarts == {0, 3, 8}

StorageBytes == MetaAlign
FreeAreaMutexBytes == 2 * MetaAlign

(* Storage::claim_memory for n values of a type of the given size and       *)
(* alignment: none when they do not end before `end`                        *)
claim_memory(ptr, end, size, align, n) ==
    LET mem == align_up(ptr, align)
    IN IF mem + size * n >= end
       THEN [none |-> TRUE, ptr |-> ptr, mem |-> mem]
       ELSE [none |-> FALSE, ptr |-> mem + size * n, mem |-> mem]

(* the loop of Storage::init that claims the free map of every level *)
RECURSIVE claim_free_maps(_, _, _)
claim_free_maps(c, end, level) ==
    IF c.none \/ level > MaxLevel THEN c
    ELSE claim_free_maps(claim_memory(c.ptr, end, 1, 1, free_map_size_for(level, MaxLevel)),
                         end, level + 1)

(* the front part of Storage::init: where the metadata lies and what is     *)
(* left for the blocks                                                      *)
Storage_carve(mem_start, mem_end) ==
    LET end_page == align_down(mem_end, MinBlock)
        this == claim_memory(mem_start, end_page, StorageBytes, MetaAlign, 1)
        free_areas == IF this.none THEN this
                      ELSE claim_memory(this.ptr, end_page, FreeAreaMutexBytes, MetaAlign,
                                        MaxLevel - MinLevel + 1)
        maps == claim_free_maps(free_areas, end_page, MinLevel)
    IN [none |-> maps.none,
        meta_start |-> this.mem, meta_end |-> maps.ptr,
        start_page |-> align_up(maps.ptr, MinBlock), end_page |-> end_page]

MemRegions ==
    { [start |-> s, end |-> s + MemStep * n] : s \in MemStarts, n \in 1 .. MaxMemUnits }

(* BuddyAllocator::manage over a memory range *)
ManageMem ==
    /\ storage.phase = "idle"
    /\ \E mem \in MemRegions :
         LET c == Storage_carve(mem.start, mem.end)
             b == Storage_init(c.start_page, c.end_page) @@ [at |-> 0]
         IN storage' = IF c.none
                       THEN [phase |-> "none", mem |-> mem,
                             lastop |-> [op |-> "manage", res |-> "None"]]
                       ELSE [phase |-> "managed", st |-> b, outstanding |-> {},
                             initial |-> get_free_area_information(b), nops |-> 0,
                             mem |-> mem, meta |-> [start |-> c.meta_start, end |-> c.meta_end],
                             lastop |-> [op |-> "manage", res |-> b.res]]
    /\ BuddyUnchanged

NextBuddyMem == ManageMem \/ Alloc \/ Free

SpecBuddyMem == InitBuddy /\ [][NextBuddyMem]_vars

---------------------------------------------------------------------------
(* The allocator shared by several threads (BuddyAllocator is Sync and      *)
(* Send).  get_free_area locks the spin Mutex of one level; the guard is    *)
(* dropped at the end of the loop iteration that took it, by drop() or at   *)
(* the break/return, and by unwinding when the call panics.  A call is a    *)
(* sequence of steps: taking the lock of a level, then the work done under  *)
(* it up to the release.                                                    *)
(*   lock : level -> thread holding the level's Mutex, 0 when free          *)
(*   thr  : thread -> the call it is in: pc, size, start (start_level),     *)
(*          level, block, id; prev is the level of the lock the call took   *)
(*          last and desc tells whether every lock of the call was of a     *)
(*          lower level than the one before; res is the last result         *)

NumThreads == 2
MaxSharedOps == 4

Threads == 1 .. NumThreads
SharedSizes == {MinBlock, MaxBlock \div 2, MaxBlock}
SharedRegions ==
    { [start_page |-> 2 * MaxBlock, end_page |-> 3 * MaxBlock],
      [start_page |-> 3 * MaxBlock, end_page |-> 6 * MaxBlock] }

IdleThread ==
    [pc |-> "idle", op |-> "none", size |-> 0, start |-> 0, level |-> 0, block |-> 0,
     id |-> 0, prev |-> 0, desc |-> TRUE, res |-> "none", avail |-> TRUE]

(* BuddyAllocator::manage, the allocator then handed to the threads *)
ManageShared ==
    /\ storage.phase = "idle"
    /\ \E r \in SharedRegions :
         LET b == Storage_init(r.start_page, r.end_page) @@ [at |-> 0]
         IN storage' = [phase |-> "shared", st |-> b, outstanding |-> {}, nops |-> 0,
                        lock |-> [l \in BuddyLevels |-> 0],
                        thr |-> [t \in Threads |-> IdleThread]]
    /\ BuddyUnchanged

(* the call of thread t is over: it returned res, or it panicked *)
Returned(th, res) == [th EXCEPT !.pc = "idle", !.res = res]
Panicked(th) == [th EXCEPT !.pc = "panicked", !.res = "Panic"]
Unlocked(lock, level) == [lock EXCEPT ![level] = 0]

(* a free block of the level is in the hands of a thread: a right half that *)
(* the split loop of an alloc has not pushed yet, or the merged block a     *)
(* free carries to the next level                                           *)
InFlight(s, level) ==
    \E u \in Threads :
        \/ /\ s.thr[u].pc \in {"s_lock", "s_body"}
           /\ level \in s.thr[u].start .. s.thr[u].level
        \/ /\ s.thr[u].pc \in {"f_lock", "f_body"}
           /\ s.thr[u].level > s.thr[u].start
           /\ level = s.thr[u].level

(* the free memory holds a block of at least `size` bytes, on a list or in  *)
(* flight                                                                   *)
Available(s, size) ==
    \E level \in Max(ilog2(size), MinLevel) .. MaxLevel :
        s.st.free_list[level] # <<>> \/ InFlight(s, level)

(* bookkeeping for the calls of alloc in progress: `avail` stays true while *)
(* a block of the requested size has been free at every instant of the call *)
Observed(s) ==
    [s EXCEPT !.thr = [u \in Threads |->
        IF s.thr[u].op = "alloc" /\ s.thr[u].pc \notin {"idle", "panicked"}
        THEN [s.thr[u] EXCEPT !.avail = @ /\ Available(s, s.thr[u].size)]
        ELSE s.thr[u]]]

(* alloc up to the first get_free_area *)
StartAlloc(t) ==
    /\ storage.phase = "shared"
    /\ storage.thr[t].pc = "idle"
    /\ storage.nops < MaxSharedOps
    /\ \E size \in SharedSizes :
         LET start_level == Max(ilog2(size), MinLevel)
             th == [pc |-> "a_lock", op |-> "alloc", size |-> size, start |-> start_level,
                    level |-> start_level, block |-> 0, id |-> storage.nops,
                    prev |-> 0, desc |-> TRUE, res |-> "none", avail |-> TRUE]
         IN storage' = Observed([storage EXCEPT
                          !.nops = @ + 1,
                          !.thr[t] = IF ~is_power_of_two(size)
                                     THEN Returned(th, "AllocError")
                                     ELSE th])
    /\ BuddyUnchanged

(* free of a block a completed alloc returned, up to the first get_free_area *)
StartFree(t) ==
    /\ storage.phase = "shared"
    /\ storage.thr[t].pc = "idle"
    /\ storage.nops < MaxSharedOps
    /\ \E o \in storage.outstanding :
         LET start_level == Max(ilog2(o.size), MinLevel)
             th == [pc |-> "f_lock", op |-> "free", size |-> o.size, start |-> start_level,
                    level |-> start_level, block |-> o.ptr, id |-> o.id,
                    prev |-> 0, desc |-> TRUE, res |-> "none", avail |-> TRUE]
         IN storage' = Observed([storage EXCEPT
                          !.nops = @ + 1,
                          !.outstanding = @ \ {o},
                          !.thr[t] = IF \/ storage.st.start_page > o.ptr
                                        \/ storage.st.end_page < o.ptr + o.size
                                        \/ ~is_power_of_two(o.size)
                                        \/ start_level > MaxLevel
                                     THEN Returned(th, "AllocError")
                                     ELSE th])
    /\ BuddyUnchanged

(* get_free_area(level): the lock is taken when no thread holds it.  In the *)
(* split loop of alloc get_buddy comes first and asserts on the end of the  *)
(* region.                                                                  *)
Acquire(t) ==
    /\ storage.phase = "shared"
    /\ storage.thr[t].pc \in {"a_lock", "s_lock", "f_lock"}
    /\ LET th == storage.thr[t]
       IN IF th.pc = "s_lock" /\ get_buddy_ptr(th.block, th.level) >= storage.st.end_page
          THEN storage' = Observed([storage EXCEPT !.thr[t] = Panicked(th)])
          ELSE /\ storage.lock[th.level] = 0
               /\ storage' = Observed([storage EXCEPT
                      !.lock[th.level] = t,
                      !.thr[t] = [th EXCEPT
                          !.pc = CASE th.pc = "a_lock" -> "a_body"
                                   [] th.pc = "s_lock" -> "s_body"
                                   [] OTHER -> "f_body",
                          !.prev = th.level,
                          !.desc = th.desc /\ (th.prev = 0 \/ th.level < th.prev)]])
    /\ BuddyUnchanged

(* the end of alloc: Ok(block) once the split loop reached start_level *)
AllocContinue(s, t, th, block) ==
    IF th.level = th.start
    THEN [s EXCEPT !.thr[t] = Returned([th EXCEPT !.block = block], "Ok"),
                   !.outstanding = @ \cup {[id |-> th.id, ptr |-> block, size |-> th.size]}]
    ELSE [s EXCEPT !.thr[t] = [th EXCEPT !.pc = "s_lock", !.block = block,
                                         !.level = th.level - 1]]

(* alloc under the lock of one level of the search loop *)
AllocBody(t) ==
    /\ storage.phase = "shared"
    /\ storage.thr[t].pc = "a_body"
    /\ LET th == storage.thr[t]
           st == storage.st
           list == st.free_list[th.level]
           block == list[Len(list)]
           popped == [st EXCEPT !.free_list[th.level] = SubSeq(list, 1, Len(list) - 1)]
           m == mark_used(popped, th.level, block)
           rel == [storage EXCEPT !.lock = Unlocked(@, th.level)]
       IN storage' = Observed(
            IF list = <<>>
            THEN IF th.level = MaxLevel
                 THEN [rel EXCEPT !.thr[t] = Returned(th, "PhysicalOOM")]
                 ELSE [rel EXCEPT !.thr[t] = [th EXCEPT !.pc = "a_lock", !.level = th.level + 1]]
            ELSE IF m.res # "Ok"
                 THEN [rel EXCEPT !.st = popped, !.thr[t] = Panicked(th)]
                 ELSE AllocContinue([rel EXCEPT !.st = m], t, th, block))
    /\ BuddyUnchanged

(* alloc under the lock of one level of the split loop *)
SplitBody(t) ==
    /\ storage.phase = "shared"
    /\ storage.thr[t].pc = "s_body"
    /\ LET th == storage.thr[t]
           st == storage.st
           pushed == [st EXCEPT !.free_list[th.level] =
                                   Append(@, get_buddy_ptr(th.block, th.level))]
           m == mark_used(pushed, th.level, th.block)
           rel == [storage EXCEPT !.lock = Unlocked(@, th.level)]
       IN storage' = Observed(
            IF m.res # "Ok"
            THEN [rel EXCEPT !.st = pushed, !.thr[t] = Panicked(th)]
            ELSE AllocContinue([rel EXCEPT !.st = m], t, th, th.block))
    /\ BuddyUnchanged

(* free under the lock of one level.  When the block taken for the buddy is *)
(* not on the level's list the call panics in assert!(is_linked) or edits   *)
(* the list through the foreign link words and goes on.                     *)
FreeBody(t) ==
    /\ storage.phase = "shared"
    /\ storage.thr[t].pc = "f_body"
    /\ LET th == storage.thr[t]
           st == storage.st
           f == mark_free(st, th.level, th.block)
           b1 == Unflag(f)
           buddy == get_buddy_ptr(th.block, th.level)
           rel == [storage EXCEPT !.lock = Unlocked(@, th.level)]
           merged(b) ==
               IF th.level = MaxLevel
               THEN [rel EXCEPT !.st = b, !.thr[t] = Returned(th, "Ok")]
               ELSE [rel EXCEPT !.st = b,
                                 !.thr[t] = [th EXCEPT !.pc = "f_lock",
                                                       !.block = get_smaller(th.block, buddy),
                                                       !.level = th.level + 1]]
           outcomes ==
               IF f.res # "Ok" THEN {[rel EXCEPT !.thr[t] = Panicked(th)]}
               ELSE IF ~f.flag
               THEN {[rel EXCEPT !.st = [b1 EXCEPT !.free_list[th.level] = Append(@, th.block)],
                                  !.thr[t] = Returned(th, "Ok")]}
               ELSE IF buddy >= st.end_page
               THEN {[rel EXCEPT !.st = b1, !.thr[t] = Panicked(th)]}
               ELSE IF ~OnList(b1.free_list[th.level], buddy)
               THEN {[rel EXCEPT !.st = b1, !.thr[t] = Panicked(th)]} \cup
                    { merged([b1 EXCEPT !.free_list[th.level] = list, !.at = th.level]) :
                        list \in CorruptLists(b1, th.level) }
               ELSE {merged([b1 EXCEPT !.free_list[th.level] = RemoveFromList(@, buddy)])}
       IN \E outcome \in outcomes : storage' = Observed(outcome)
    /\ BuddyUnchanged

ThreadStep(t) == Acquire(t) \/ AllocBody(t) \/ SplitBody(t) \/ FreeBody(t)

NextShared ==
    \/ ManageShared
    \/ \E t \in Threads : StartAlloc(t) \/ StartFree(t) \/ ThreadStep(t)

SpecShared == InitBuddy /\ [][NextShared]_vars

(* the threads are scheduled: a thread that can take its next step is not   *)
(* left waiting forever                                                     *)
FairSpecShared == SpecShared /\ \A t \in Threads : WF_vars(ThreadStep(t))


---------------------------------------------------------------------------
(* The caller maps again after a traversal that removed the blocks of a     *)
(* range: one more request inside that range, once the iterator has been    *)
(* dropped.                                                                 *)

MapAfterTraverse ==
    /\ ntrav > 0
    /\ last.op = "traverse"
    /\ last.mode = "remove"
    /\ MapCall({ m \in TravRequests(ttbr, 1) :
                   last.range.start <= m.virt_addr /\ MapEnd(m) <= last.range.end })

NextRemap == TravMap \/ Traverse \/ NextItem \/ Remove \/ Dealloc \/ Drop \/ MapAfterTraverse

SpecRemap == Init /\ [][NextRemap]_vars

---------------------------------------------------------------------------
(* A table walk concurrent with one call of map.  The stores of map_impl   *)
(* are plain stores with no barrier between them (install_new_tbl_desc,     *)
(* install_contigious_mappings), so the walker may see a younger store      *)
(* before an older one to another slot.  StoreWindow bounds how far: the    *)
(* next store to become visible is one of the StoreWindow oldest pending.   *)

StoreWindow == 2
WalkMapPages == 2

(* what a page of the allocator may hold before allocate_zeroed fills it *)
StaleDesc == new_stage1_page_desc(FOUR_KIB, parse_map_attrs(normal_memory_default, "Normal"))
StaleTable == [i \in Slots |-> StaleDesc]

WalkRequests(sel) ==
    { m \in MapRequests(sel, {"Normal"}, {normal_memory_default}) :
        m.phy_addr = 0 /\ m.num_pages <= WalkMapPages }

RECURSIVE ApplyStores(_, _)
ApplyStores(t, stores) ==
    IF stores = <<>> THEN t
    ELSE ApplyStores([t EXCEPT ![Head(stores).tbl][Head(stores).idx] = Head(stores).desc],
                     Tail(stores))

WithoutStore(stores, i) == SubSeq(stores, 1, i - 1) \o SubSeq(stores, i + 1, Len(stores))

(* a map that completes before the concurrent one starts *)
WalkSetup ==
    /\ last.op = "none"
    /\ MapCall(WalkRequests(ttbr))

(* map is called: its stores are issued in program order *)
StartMap ==
    /\ ~panicked
    /\ last.op \in {"none", "map"}
    /\ \E m \in WalkRequests(ttbr), stale \in {EmptyTable, StaleTable} :
         LET r == map(tbl, pool, m)
         IN /\ r.stores # <<>>
            /\ tbl' = [id \in TableIds |-> IF id \in pool THEN stale ELSE tbl[id]]
            /\ pool' = r.free
            /\ calls' = Append(calls, [m |-> m, res |-> r.res])
            /\ last' = [op |-> "mapping", m |-> m, res |-> r.res, pre |-> tbl,
                        stores |-> r.stores]
    /\ UNCHANGED <<ttbr, iter, yielded, hist, panicked, ntrav, planner, storage>>

(* one store of the map becomes visible to the walker *)
StoreVisible ==
    /\ last.op = "mapping"
    /\ \E i \in 1 .. Min(StoreWindow, Len(last.stores)) :
         /\ \A j \in 1 .. i - 1 :
               <<last.stores[j].tbl, last.stores[j].idx>>
                  # <<last.stores[i].tbl, last.stores[i].idx>>
         /\ tbl' = ApplyStores(tbl, <<last.stores[i]>>)
         /\ last' = [last EXCEPT !.stores = WithoutStore(@, i),
                                 !.op = IF Len(last.stores) = 1 THEN "mapped" ELSE "mapping"]
         /\ panicked' = (Len(last.stores) = 1 /\ last.res = "Panic")
    /\ UNCHANGED <<ttbr, pool, iter, yielded, hist, calls, ntrav, planner, storage>>

(* virt2phy, or the hardware walker, starts at the root *)
WalkStart ==
    /\ last.op = "mapping"
    /\ ~iter.active
    /\ yielded = NoYield
    /\ \E vp \in 0 .. MaxVaPage :
         iter' = [active |-> TRUE, vaddr |-> VAddr(ttbr, vp), level |-> 0,
                  descs |-> RootTable]
    /\ UNCHANGED <<ttbr, tbl, pool, yielded, last, hist, panicked, calls, ntrav,
                   planner, storage>>

(* one iteration of the loop of virt2phy: load one descriptor *)
WalkStep ==
    /\ last.op \in {"mapping", "mapped"}
    /\ iter.active
    /\ LET desc == load_desc(tbl, iter.descs, get_idx_for_level(iter.vaddr, iter.level))
           parsed == parse_desc(desc, iter.level)
       IN IF parsed = "Table"
          THEN /\ iter' = [iter EXCEPT !.level = @ + 1, !.descs = desc.addr]
               /\ yielded' = yielded
          ELSE /\ iter' = NoIter
               /\ yielded' = [kind |-> "Walk", vaddr |-> iter.vaddr,
                              res |-> IF parsed \in {"Block", "Page"}
                                      THEN to_translation_desc(iter.vaddr, desc, iter.level)
                                      ELSE NoTranslation]
    /\ UNCHANGED <<ttbr, tbl, pool, last, hist, panicked, calls, ntrav, planner, storage>>

NextWalk == WalkSetup \/ StartMap \/ StoreVisible \/ WalkStart \/ WalkStep

SpecWalk == Init /\ [][NextWalk]_vars
---------------------------------------------------------------------------
(* Properties *)

MapRange(m) == m.virt_addr .. (MapEnd(m) - 1)
Overlapping(m1, m2) == MapRange(m1) \cap MapRange(m2) # {}
MapSucceeded == last.op = "map" /\ last.res = "Ok"

(* C1: after a successful map(m), virt2phy(v) of every v in m's virtual    *)
(* range is a translation whose physical address is                         *)
(* m.phy_addr + (v - m.virt_addr), whatever granule the planner chose.      *)
C1_Virt2PhyAppliesOffset ==
    MapSucceeded =>
        \A v \in MapRange(last.m) :
            /\ virt2phy(tbl, v).found
            /\ virt2phy(tbl, v).phy_addr = last.m.phy_addr + (v - last.m.virt_addr)

(* C2: once map(m1) has succeeded, every later map(m2) that shares a        *)
(* virtual address with m1 returns VMMapExists: not success, not a panic,   *)
(* not another error.                                                       *)
C2_OverlapReturnsVMMapExists ==
    \A i, j \in DOMAIN calls :
        (i < j /\ calls[i].res = "Ok" /\ Overlapping(calls[i].m, calls[j].m))
            => calls[j].res = "VMMapExists"

(* C3: for page-aligned planner inputs whose length is a multiple of the    *)
(* page size, the span lengths returned by find_best_mapping_scheme sum to  *)
(* the requested length.                                                    *)
C3_PlannerCoversLength ==
    planner.phase = "done" =>
        /\ planner.scheme.ok
        /\ SumSpans(planner.scheme.spans) = planner.size

(* C4: whatever sequence of alloc and free calls the owner makes (each free  *)
(* of an outstanding block with its allocation size), no two outstanding    *)
(* allocations share an address.                                            *)
C4_OutstandingDisjoint ==
    storage.phase = "managed" =>
        \A a, b \in storage.outstanding :
            a # b => BlockRange(a) \cap BlockRange(b) = {}

(* C5: once every allocated block has been freed with its allocation size,  *)
(* the free-area histogram is the one manage left.                          *)
C5_HistogramRestored ==
    ( /\ storage.phase = "managed"
      /\ storage.lastop.op = "free"
      /\ storage.lastop.res = "Ok"
      /\ storage.outstanding = {} )
        => get_free_area_information(storage.st) = storage.initial

RangeSet(r) == r.start .. (r.end - 1)
BlockInterval(info) == (info.vaddr + info.overlap.start) .. (info.vaddr + info.overlap.end - 1)
MappedAtStart == { v \in RangeSet(hist.range) : virt2phy(hist.pre, v).found }
TraverseDone == ntrav > 0 /\ hist.done

(* C6: when a traversal has returned None, the intervals                    *)
(* [vaddr + overlap.start, vaddr + overlap.end) of the PhysicalBlock items  *)
(* it yielded are pairwise disjoint and their union is the set of addresses *)
(* of the range that were mapped when the traversal started, whether or not *)
(* the caller removed the blocks.                                           *)
C6_TraverseCoversMapped ==
    TraverseDone =>
        /\ UNION { BlockInterval(hist.blocks[i]) : i \in DOMAIN hist.blocks } = MappedAtStart
        /\ \A i, j \in DOMAIN hist.blocks :
               i # j => BlockInterval(hist.blocks[i]) \cap BlockInterval(hist.blocks[j]) = {}

(* C7: after traverse(r, TRUE) over a range r that was mapped, with every    *)
(* yielded block removed, no address of r translates, and a second          *)
(* traversal of r yields no item.                                           *)
C7_RemovedRangeUnmapped ==
    /\ ( /\ TraverseDone
         /\ ntrav = 1
         /\ hist.mode = "remove"
         /\ hist.flag
         /\ MappedAtStart = RangeSet(hist.range) )
           => \A v \in RangeSet(hist.range) : ~virt2phy(tbl, v).found
    /\ (TraverseDone /\ ntrav = 2 /\ last.flag /\ last.covered)
           => (hist.blocks = <<>> /\ hist.unused = <<>>)

UnmapOfOnlyMap ==
    /\ TraverseDone
    /\ ntrav = 1
    /\ hist.mode = "remove"
    /\ hist.flag
    /\ Len(calls) = 1
    /\ calls[1].res = "Ok"
    /\ hist.range = [start |-> calls[1].m.virt_addr, end |-> MapEnd(calls[1].m)]

(* C8: map(m) on the empty table, then a traverse(m's range, TRUE) loop up  *)
(* to the first None that removes every block and hands every UnusedMemory  *)
(* table back: the page allocator holds every table again and the tree is   *)
(* empty.                                                                   *)
C8_UnmapRestoresAllocator ==
    UnmapOfOnlyMap =>
        /\ pool = AllocTableIds
        /\ tbl = [id \in TableIds |-> EmptyTable]

InBlock(info) == info.vaddr .. (info.vaddr + info.size - 1)

(* C9: after remove_overlapping_range on a yielded block, every address of  *)
(* the block inside the overlap has no translation and every address of the *)
(* block outside it translates as it did before the call (physical address, *)
(* access permissions, kind).                                               *)
C9_RemoveFrameEffect ==
    (last.op = "remove" /\ last.res = "Ok") =>
        \A v \in InBlock(last.info) :
            IF v \in BlockInterval(last.info)
            THEN ~virt2phy(tbl, v).found
            ELSE virt2phy(tbl, v) = virt2phy(last.pre, v)

(* C10: after a successful map(m), virt2phy(v) of every v in m's range      *)
(* returns m's access permissions and m's kind, for every permission set a  *)
(* caller can request.                                                      *)
C10_AttributesRoundTrip ==
    MapSucceeded =>
        \A v \in MapRange(last.m) :
            /\ virt2phy(tbl, v).found
            /\ virt2phy(tbl, v).access_perms = last.m.access_permissions
            /\ virt2phy(tbl, v).memory_kind = last.m.kind


(* the blocks on the free list of one size class *)
FreeBlocks(b, level) == { b.free_list[level][i] : i \in DOMAIN b.free_list[level] }

(* the two blocks that share bit idx of the free map of one size class *)
PairBlocks(b, level, idx) ==
    { b.zero_page + (2 * idx) * Pow2(level), b.zero_page + (2 * idx + 1) * Pow2(level) }

PairIndexes(b, level) == 0 .. ((b.end_page - b.zero_page) \div Pow2(level + 1))

(* the allocator is between two operations and no operation has panicked *)
BuddyQuiet == storage.phase = "managed" /\ storage.lastop.res # "Panic"

RECURSIVE FreeBytesFrom(_, _)
FreeBytesFrom(b, level) ==
    IF level > MaxLevel THEN 0
    ELSE Len(b.free_list[level]) * Pow2(level) + FreeBytesFrom(b, level + 1)

(* the memory on the free lists *)
FreeBytes(b) == FreeBytesFrom(b, MinLevel)

(* the step is a call of free that returned Ok *)
FreeReturned ==
    storage.phase = "managed" /\ storage'.lastop.op = "free" /\ storage'.lastop.res = "Ok"

(* C11: between two operations of the allocator, for every size class and   *)
(* every buddy pair, the pair's bit of the free map is 1 exactly when one    *)
(* of the two buddies is on the class's free list, and 0 when both or        *)
(* neither are.                                                              *)
C11_FreeMapBitIsXor ==
    BuddyQuiet =>
        \A level \in BuddyLevels : \A idx \in PairIndexes(storage.st, level) :
            (idx \in storage.st.map[level])
                <=> (Cardinality(PairBlocks(storage.st, level, idx)
                                   \cap FreeBlocks(storage.st, level)) = 1)

(* C12: in every state between operations, the state right after manage    *)
(* included, at most one block of a buddy pair is on a free list, and no     *)
(* block is on a free list twice or on the lists of two size classes.        *)
C12_OneBuddyOfPairFree ==
    BuddyQuiet =>
        /\ \A level \in BuddyLevels : \A idx \in PairIndexes(storage.st, level) :
             Cardinality(PairBlocks(storage.st, level, idx)
                           \cap FreeBlocks(storage.st, level)) <= 1
        /\ \A level \in BuddyLevels : \A i, j \in DOMAIN storage.st.free_list[level] :
             i # j => storage.st.free_list[level][i] # storage.st.free_list[level][j]
        /\ \A l1, l2 \in BuddyLevels :
             l1 # l2 => FreeBlocks(storage.st, l1) \cap FreeBlocks(storage.st, l2) = {}

(* C13: a call of free that returns Ok takes no block off the list of the   *)
(* largest size class, and the memory on the free lists grows by the size    *)
(* of the freed block.                                                       *)
C13_FreeKeepsMaxBlocks ==
    [][FreeReturned =>
         /\ Len(storage'.st.free_list[MaxLevel]) >= Len(storage.st.free_list[MaxLevel])
         /\ FreeBytes(storage'.st)
              = FreeBytes(storage.st) + Max(storage'.lastop.size, MinBlock)]_vars

(* the planner has returned a scheme for its input without a bug! *)
PlannerDone == planner.phase = "done" /\ planner.scheme.ok

(* distance from the start of the request to the start of span k, as       *)
(* map_impl advances virt_addr and phy_addr over the spans before it       *)
SpanStart(spans, k) == SumSpans(SubSeq(spans, 1, k - 1))

(* C14: map_impl walks the spans of the planner in order from the request's *)
(* addresses; every span then starts at a virtual and a physical address     *)
(* that are both aligned to the span's granule, so the alignment assertion   *)
(* of the descriptor constructor holds for the first leaf of each span.      *)
C14_SpansAligned ==
    PlannerDone =>
        \A k \in DOMAIN planner.scheme.spans :
            LET span == planner.scheme.spans[k]
                off == SpanStart(planner.scheme.spans, k)
            IN /\ is_aligned(planner.vaddr + off, SpanGranule(span))
               /\ desc_ctor_asserts(SpanGranule(span), planner.paddr + off)

(* a scheme with a page span in front of a 1 GiB block span *)
C14_Witness ==
    /\ PlannerDone
    /\ Len(planner.scheme.spans) >= 2
    /\ planner.scheme.spans[1].tag = "FourKiB"
    /\ \E k \in DOMAIN planner.scheme.spans : planner.scheme.spans[k].tag = "OneGiB"

(* the addresses of the half of the address space the table serves *)
AddressSpace(sel) == { sel * VaSpace + low : low \in 0 .. (VaSpace - 1) }

(* C15: a call of map, whether it returns Ok or an error or trips an        *)
(* assertion after part of its work, leaves the result of virt2phy as it    *)
(* was for every address that had a translation before the call.            *)
C15_MapKeepsTranslations ==
    [][\A v \in AddressSpace(ttbr) :
         virt2phy(tbl, v).found => virt2phy(tbl', v) = virt2phy(tbl, v)]_vars

(* a second map that overlapped the first one and stopped at the assertion  *)
(* of install_contigious_mappings after it had written descriptors          *)
C15_Witness ==
    /\ Len(calls) = 2
    /\ calls[1].res = "Ok"
    /\ calls[2].res = "Panic"
    /\ Overlapping(calls[1].m, calls[2].m)
    /\ \E v \in MapRange(calls[2].m) \ MapRange(calls[1].m) : virt2phy(tbl, v).found

(* the tables a walk from the root can reach through table descriptors *)
RECURSIVE LinkedBelow(_, _, _)
LinkedBelow(t, id, level) ==
    {id} \cup UNION { LinkedBelow(t, t[id][i].addr, level + 1) :
                        i \in { j \in DOMAIN t[id] : parse_desc(t[id][j], level) = "Table" } }

LinkedTables(t) == LinkedBelow(t, RootTable, 0) \ {RootTable}

(* the step is a call of map that returned PhysicalOOM or VMMapExists *)
MapFailed ==
    calls' # calls /\ last'.op = "map" /\ last'.res \in {"PhysicalOOM", "VMMapExists"}

(* C16: when map(m) returns PhysicalOOM or VMMapExists, every translation   *)
(* that existed before the call is unchanged, every page v that has a       *)
(* translation only after the call lies in m's range and translates to      *)
(* m.phy_addr + (v - m.virt_addr), and the tables taken from the allocator   *)
(* are exactly the tables linked into the tree.                             *)
C16_FailedMapLeavesPrefix ==
    [][MapFailed =>
         /\ \A v \in AddressSpace(ttbr) :
              /\ virt2phy(tbl, v).found => virt2phy(tbl', v) = virt2phy(tbl, v)
              /\ (is_aligned(v, GRANULE_SIZE) /\ ~virt2phy(tbl, v).found
                    /\ virt2phy(tbl', v).found)
                   => /\ v \in MapRange(last'.m)
                      /\ virt2phy(tbl', v).phy_addr
                           = last'.m.phy_addr + (v - last'.m.virt_addr)
         /\ AllocTableIds \ pool' = LinkedTables(tbl')]_vars

(* C17: when remove_overlapping_range returns an error, every address       *)
(* translates as it did before the call: the table is observably unchanged. *)
C17_RemoveIsAtomic ==
    (last.op = "remove" /\ last.res \notin {"Ok", "Panic"}) =>
        \A v \in AddressSpace(ttbr) : virt2phy(tbl, v) = virt2phy(last.pre, v)

(* the range of the traversal had a translation for every address when the  *)
(* traversal started                                                        *)
RangeCovered == \A v \in RangeSet(hist.range) : virt2phy(hist.pre, v).found

(* C18: a traversal yields its PhysicalBlock items in strictly increasing   *)
(* order of vaddr; when it has ended over a range that was fully mapped,    *)
(* each block starts where the block before it ends; and when the range is  *)
(* the range of the only map call and every block was removed as it was     *)
(* yielded, the physical block of each item is the physical address the     *)
(* map call gave to the item's vaddr.                                       *)
C18_TraverseInOrder ==
    ntrav > 0 =>
        /\ \A i, j \in DOMAIN hist.blocks :
             i < j => hist.blocks[i].vaddr < hist.blocks[j].vaddr
        /\ (TraverseDone /\ RangeCovered) =>
             \A i \in DOMAIN hist.blocks :
                 i > 1 => hist.blocks[i].vaddr
                            = hist.blocks[i - 1].vaddr + hist.blocks[i - 1].size
        /\ (TraverseDone /\ RangeCovered /\ hist.mode = "remove" /\ ntrav = 1
              /\ Len(calls) = 1
              /\ hist.range = [start |-> calls[1].m.virt_addr, end |-> MapEnd(calls[1].m)]) =>
             \A i \in DOMAIN hist.blocks :
                 hist.blocks[i].phy_block
                   = calls[1].m.phy_addr + (hist.blocks[i].vaddr - calls[1].m.virt_addr)

(* C19: in every state between operations and for every size the owner may *)
(* ask for, alloc(size) returns PhysicalOOM exactly when the free lists of  *)
(* the classes max(log2 size, log2 min_block) .. log2 max_block are all     *)
(* empty, and an alloc that fails leaves every free list and every free-map *)
(* bit as it was.                                                           *)
C19_AllocOomIffListsEmpty ==
    BuddyQuiet =>
        \A size \in AllocSizes :
            LET r == alloc(storage.st, size)
            IN /\ (r.res = "PhysicalOOM")
                    <=> (\A l \in Max(ilog2(size), MinLevel) .. MaxLevel :
                             storage.st.free_list[l] = <<>>)
               /\ r.res \notin {"Ok", "Panic"}
                    => (r.free_list = storage.st.free_list /\ r.map = storage.st.map)

(* C20: a call of free whose block is not inside the managed region or      *)
(* whose size is not a power of two (0 included) returns AllocError, does   *)
(* not panic, and leaves every free list and every free-map bit as it was.  *)
C20_FreeRejectsBadArguments ==
    (storage.phase = "managed" /\ storage.lastop.op = "free"
       /\ "pre" \in DOMAIN storage.lastop) =>
        /\ storage.lastop.res = "AllocError"
        /\ storage.st.free_list = storage.lastop.pre.free_list
        /\ storage.st.map = storage.lastop.pre.map

(* usize::next_power_of_two: the smallest power of two that is >= n *)
RECURSIVE next_power_of_two(_)
next_power_of_two(n) == IF is_power_of_two(n) THEN n ELSE next_power_of_two(n + 1)

(* the size the spec gives the block that serves a request of `size` bytes *)
RoundedSize(size) == Max(next_power_of_two(size), MinBlock)

(* C21: in every state between operations and for every size from 1 to     *)
(* max_block, alloc(size) either finds no block or succeeds, and a          *)
(* successful call takes exactly the size rounded up to the next power of   *)
(* two that is at least min_block off the free lists.                       *)
C21_AllocRoundsUp ==
    BuddyQuiet =>
        \A size \in 1 .. MaxBlock :
            LET r == alloc(storage.st, size)
            IN /\ r.res \in {"Ok", "PhysicalOOM"}
               /\ r.res = "Ok" => FreeBytes(storage.st) - FreeBytes(r) = RoundedSize(size)

RECURSIVE free_links(_, _, _)
free_links(b, block, level) ==
    IF level > MaxLevel THEN {}
    ELSE LET f == mark_free(b, level, block)
             b1 == Unflag(f)
             buddy == get_buddy_ptr(block, level)
         IN IF f.res # "Ok" \/ ~f.flag \/ buddy >= b.end_page THEN {}
            ELSE {[ptr |-> buddy, level |-> level]} \cup
                 (IF OnList(b1.free_list[level], buddy)
                  THEN free_links([b1 EXCEPT !.free_list[level] = RemoveFromList(@, buddy)],
                                  get_smaller(block, buddy), level + 1)
                  ELSE {})

InsideRegion(b, ptr, size) == b.start_page <= ptr /\ ptr + size <= b.end_page

LeftOfOneMaxBlock(b) == b.end_page - b.start_page < MaxBlock

(* every block handed out has been given back by a free that returned Ok *)
AllGivenBack ==
    /\ BuddyQuiet
    /\ storage.nops > 0
    /\ storage.outstanding = {}
    /\ LeftOfOneMaxBlock(storage.st)

(* C24 as stated: over a range of max_block bytes, once every allocated     *)
(* block is freed the histogram shows one free block of max_block bytes     *)
(* and nothing else                                                         *)
C24_OneMaxBlockAfterFree ==
    AllGivenBack =>
        get_free_area_information(storage.st) =
            [l \in BuddyLevels |-> IF l = MaxLevel THEN 1 ELSE 0]

(* C24 as the code has it: over a range of max_block bytes, once every      *)
(* allocated block is freed the histogram is the one manage left, which     *)
(* holds no block of max_block bytes                                        *)
C24_FreeRestoresHistogram ==
    AllGivenBack =>
        /\ get_free_area_information(storage.st) = storage.initial
        /\ storage.st.free_list[MaxLevel] = <<>>

C24_Witness ==
    /\ AllGivenBack
    /\ storage.nops = MaxBuddyOps
    /\ storage.lastop.op = "free" /\ storage.lastop.res = "Ok"
    /\ storage.lastop.size = MinBlock
    /\ storage.initial[MinLevel] = 0
    /\ storage.initial[MaxLevel - 1] = 1

(* the allocator is in the hands of the threads *)
SharedRun == storage.phase = "shared"

(* every call of every thread has returned *)
SharedQuiet == SharedRun /\ \A t \in Threads : storage.thr[t].pc = "idle"

LocksHeld(t) == { l \in BuddyLevels : storage.lock[l] = t }

FreeRanges(b) ==
    UNION { { [ptr |-> x, size |-> Pow2(l)] : x \in FreeBlocks(b, l) } : l \in BuddyLevels }

(* C26: with the allocator shared between threads no block is handed to two *)
(* callers and no two outstanding blocks overlap; once every call has       *)
(* returned no block is on a free list twice, the free blocks and the       *)
(* outstanding blocks are pairwise disjoint, and the bit of every buddy     *)
(* pair is 1 exactly when one of the two is free                            *)
C26_SharedAllocatorSafe ==
    /\ SharedRun =>
         \A a, b \in storage.outstanding : a # b => BlockRange(a) \cap BlockRange(b) = {}
    /\ SharedQuiet =>
         /\ \A l \in BuddyLevels :
              Cardinality(FreeBlocks(storage.st, l)) = Len(storage.st.free_list[l])
         /\ \A a, b \in FreeRanges(storage.st)
                           \cup { [ptr |-> o.ptr, size |-> o.size] : o \in storage.outstanding } :
              a # b => BlockRange(a) \cap BlockRange(b) = {}
         /\ \A level \in BuddyLevels : \A idx \in PairIndexes(storage.st, level) :
              (idx \in storage.st.map[level])
                  <=> (Cardinality(PairBlocks(storage.st, level, idx)
                                     \cap FreeBlocks(storage.st, level)) = 1)

(* the Block and Page descriptors of the tables linked below table id *)
RECURSIVE LeafDescsBelow(_, _, _)
LeafDescsBelow(t, id, level) ==
    { t[id][i] : i \in { j \in DOMAIN t[id] : parse_desc(t[id][j], level) \in {"Block", "Page"} } }
    \cup UNION { LeafDescsBelow(t, t[id][i].addr, level + 1) :
                   i \in { j \in DOMAIN t[id] : parse_desc(t[id][j], level) = "Table" } }

LeafDescs(t) == LeafDescsBelow(t, RootTable, 0)

(* what the AP field lets each exception level do *)
WritableAtEL1(d) == d.ap \in {RW_EL1, RW_EL1_EL0}
WritableAtEL0(d) == d.ap = RW_EL1_EL0

(* C27: every leaf descriptor map writes has PXN set exactly when           *)
(* EL1_EXECUTE was not requested or EL1_WRITE was, and UXN set exactly when *)
(* EL0_EXECUTE was not requested or EL0_WRITE was; so no leaf is writable   *)
(* and executable at the same exception level                               *)
C27_WriteXorExecute ==
    last.op = "map" =>
        \A d \in LeafDescs(tbl) :
            LET ap == last.m.access_permissions
            IN /\ d.pxn <=> (~contains(ap, EL1_EXECUTE) \/ contains(ap, EL1_WRITE))
               /\ d.uxn <=> (~contains(ap, EL0_EXECUTE) \/ contains(ap, EL0_WRITE))
               /\ ~(WritableAtEL1(d) /\ ~d.pxn)
               /\ ~(WritableAtEL0(d) /\ ~d.uxn)

C27_Witness ==
    /\ MapSucceeded
    /\ contains(last.m.access_permissions, EL1_EXECUTE \cup EL0_EXECUTE \cup EL0_WRITE)
    /\ \E d \in LeafDescs(tbl) : parse_desc(d, 2) = "Block" /\ ~d.pxn /\ d.uxn

(* C28: every Block or Page descriptor map writes has AF set, SH            *)
(* InnerShareable for Normal and OuterShareable for Device memory, and      *)
(* AttrIndx 1 for Normal and 0 for Device memory                            *)
C28_LeafAttributes ==
    last.op = "map" =>
        \A d \in LeafDescs(tbl) :
            /\ d.af
            /\ d.sh = (IF last.m.kind = "Normal" THEN InnerShareable ELSE OuterShareable)
            /\ d.attr_indx = (IF last.m.kind = "Normal" THEN 1 ELSE 0)

(* no map call has been made on the table *)
FreshTable == calls = <<>>

(* every address of both halves of the address space *)
ValidVirtualAddresses ==
    { VAddr(sel, 0) + o : sel \in {0, SelOnes}, o \in 0 .. (VaSpace - 1) }

(* ranges that hold no address *)
EmptyRanges ==
    { [start |-> VAddr(sel, a), end |-> VAddr(sel, b)] :
        sel \in {0, SelOnes}, a \in 0 .. MaxTravPage, b \in 0 .. MaxTravPage } \ 
    UNION { TravRanges(sel) : sel \in {0, SelOnes} }

(* C29: on a fresh table virt2phy returns None for every valid address, and *)
(* a traversal of any range with either flag yields no PhysicalBlock and no *)
(* UnusedMemory item and leaves the table as it was                         *)
C29_FreshTableIsEmpty ==
    FreshTable =>
        /\ \A v \in ValidVirtualAddresses : ~virt2phy(tbl, v).found
        /\ tbl = [id \in TableIds |-> EmptyTable]
        /\ ~panicked
        /\ ntrav > 0 => /\ hist.blocks = <<>> /\ hist.unused = <<>>
                        /\ yielded.kind \in {"Nothing", "None"}
        /\ \A r \in EmptyRanges : \A flag \in BOOLEAN :
             LET w == TraverseIterator_new(tbl, r, flag)
             IN /\ ~w.panic
                /\ next(w).item.kind = "None"
                /\ next(w).w.tbl = tbl

C29_Witness ==
    /\ FreshTable
    /\ ntrav > 0 /\ hist.done /\ hist.flag
    /\ ttbr = SelOnes
    /\ hist.range.end - hist.range.start > TWO_MIB

(* the list with its i-th block taken off *)
WithoutIndex(list, i) == SubSeq(list, 1, i - 1) \o SubSeq(list, i + 1, Len(list))

AllInvalid(t, id) == \A i \in Slots : ~load_desc(t, id, i).valid

NoDuplicates(s) == \A i, j \in DOMAIN s : s[i] = s[j] => i = j

(* C31: a table yielded as UnusedMemory by a traversal with                 *)
(* free_empty_descs = true is not the root, has only Invalid entries, is    *)
(* not reachable from the root, is not free in the allocator and is not     *)
(* waiting to be yielded again; a traversal that only looks yields no table *)
(* twice; a traversal with free_empty_descs = false yields no UnusedMemory  *)
(* and unlinks no table (and changes nothing when the caller only looks).   *)
C31_UnusedMemoryIsUnlinkedEmptyTable ==
    ntrav > 0 =>
        /\ yielded.kind = "UnusedMemory" =>
             /\ hist.flag
             /\ yielded.table # RootTable
             /\ AllInvalid(tbl, yielded.table)
             /\ yielded.table \notin LinkedTables(tbl)
             /\ yielded.table \notin pool
             /\ \A i \in DOMAIN iter.empty_descs : iter.empty_descs[i] # yielded.table
        /\ iter.active => NoDuplicates(iter.empty_descs)
        /\ hist.mode = "look" => NoDuplicates(hist.unused)
        /\ ~hist.flag =>
             /\ hist.unused = <<>>
             /\ iter.active => iter.empty_descs = <<>>
             /\ LinkedTables(hist.pre) \subseteq LinkedTables(tbl)
             /\ hist.mode = "look" => tbl = hist.pre

(* a traversal that removes the blocks has been handed the second of two    *)
(* tables it emptied                                                        *)
C31_Witness ==
    /\ ntrav > 0 /\ hist.flag /\ hist.mode = "remove"
    /\ yielded.kind = "UnusedMemory"
    /\ Len(hist.unused) = 2
    /\ hist.blocks # <<>>

(* C32: a PhysicalBlock yielded by traverse(va_range, ..) has the upper 16   *)
(* bits of va_range in vaddr(), the leaf descriptor that translates vaddr() *)
(* is the one the block was built from, vaddr() is before va_range.end, the *)
(* block's interval meets va_range, and overlapping_range() is that         *)
(* intersection as offsets from vaddr(), with 0 <= start < end <= size.     *)
C32_BlockAddressAndOverlap ==
    yielded.kind = "PhysicalBlock" =>
        LET rng == hist.range
            tr == virt2phy(tbl, yielded.vaddr)
            lo == Max(yielded.vaddr, rng.start)
            hi == Min(yielded.vaddr + yielded.size, rng.end)
        IN /\ identify_ttbr_select(yielded.vaddr) = identify_ttbr_select(rng.start)
           /\ tr.found /\ tr.phy_addr = yielded.phy_block
           /\ yielded.vaddr < rng.end
           /\ lo < hi
           /\ yielded.overlap = [start |-> lo - yielded.vaddr, end |-> hi - yielded.vaddr]
           /\ 0 <= yielded.overlap.start
           /\ yielded.overlap.start < yielded.overlap.end
           /\ yielded.overlap.end <= yielded.size

(* the step is a call of map made after a traversal *)
MappedAgain == ntrav > 0 /\ calls' # calls /\ last'.op = "map"

(* C33: a map(m) made after earlier maps and traversals, with or without    *)
(* removal, returns Ok when no address of m's range has a translation       *)
(* before the call, unless the allocator has no page left for a descriptor  *)
(* table it needs.                                                          *)
C33_MapOfUnmappedRangeSucceeds ==
    [][(/\ MappedAgain
        /\ \A v \in MapRange(last'.m) : ~virt2phy(tbl, v).found)
       => \/ last'.res = "Ok"
          \/ last'.res = "PhysicalOOM" /\ pool' = {}]_vars

(* the slots of linked tables that hold a Table descriptor, with the level  *)
(* of the table the slot is in                                              *)
RECURSIVE TableSlotsBelow(_, _, _)
TableSlotsBelow(t, id, level) ==
    UNION { {[parent |-> id, idx |-> i, level |-> level, child |-> t[id][i].addr]}
            \cup TableSlotsBelow(t, t[id][i].addr, level + 1) :
              i \in { j \in Slots : parse_desc(t[id][j], level) = "Table" } }

TableSlots(t) == TableSlotsBelow(t, RootTable, 0)

(* every descriptor a walk from the root can read is of a kind its level allows *)
RECURSIVE KindsAllowedBelow(_, _, _)
KindsAllowedBelow(t, id, level) ==
    \A i \in Slots :
        LET parsed == parse_desc(t[id][i], level)
        IN /\ parsed # "Err"
           /\ parsed = "Table" => level < 3 /\ KindsAllowedBelow(t, t[id][i].addr, level + 1)
           /\ parsed = "Block" => level \in {1, 2}
           /\ parsed = "Page" => level = 3

(* C34: after any sequence of map, traverse, remove_overlapping_range and   *)
(* returning UnusedMemory tables to the allocator the table is a tree:      *)
(* every Table descriptor reachable from the root (levels 0 to 2) points to *)
(* a table that is not the root, is not free in the allocator and is        *)
(* neither waiting to be yielded nor just yielded as UnusedMemory; no table *)
(* is pointed to from two slots; Block descriptors are at levels 1 and 2    *)
(* and Page descriptors at level 3 only; and a table that                   *)
(* install_new_tbl_desc would link now is all Invalid and not yet linked.   *)
C34_TableIsTree ==
    /\ \A s \in TableSlots(tbl) :
         /\ s.level \in 0 .. 2
         /\ s.child \in AllocTableIds
         /\ s.child \notin pool
         /\ iter.active => \A i \in DOMAIN iter.empty_descs : iter.empty_descs[i] # s.child
         /\ yielded.kind = "UnusedMemory" => yielded.table # s.child
         /\ \A s2 \in TableSlots(tbl) : s2.child = s.child => s2 = s
    /\ KindsAllowedBelow(tbl, RootTable, 0)
    /\ pool # {} =>
         \A id \in LinkedTables(tbl) \cup {RootTable} : \A i \in Slots :
             LET s1 == install_new_tbl_desc([tbl |-> tbl, free |-> pool, res |-> "Ok",
                                             stores |-> <<>>], id, i)
                 new == s1.tbl[id][i].addr
             IN /\ new \notin LinkedTables(tbl) \cup {RootTable}
                /\ AllInvalid(s1.tbl, new)

(* a table given back to the allocator during a removal is linked again by  *)
(* a later map                                                              *)
C34_Witness ==
    /\ ~panicked
    /\ last.op = "map" /\ last.res = "Ok" /\ ntrav > 0
    /\ hist.unused # <<>>
    /\ \E i \in DOMAIN hist.unused : hist.unused[i] \in LinkedTables(tbl)
    /\ Cardinality(LinkedTables(tbl)) >= 3

(* a table that was linked when the traversal began has been unlinked by    *)
(* free_descs_if_empty and is in nobody's hands: not waiting in             *)
(* empty_descs, not free in the allocator                                   *)
UnlinkedTableLost ==
    \E id \in LinkedTables(hist.pre) :
        /\ id \notin LinkedTables(tbl)
        /\ AllInvalid(tbl, id)
        /\ id \notin pool
        /\ \A i \in DOMAIN iter.empty_descs : iter.empty_descs[i] # id

(* C35: during a traversal with free_empty_descs = true the iterator never  *)
(* holds more than MAX_TRANSLATION_LEVELS freed tables, and no call of      *)
(* next() ends in the failure of the push onto a full empty_descs (the      *)
(* slot of the table is then already cleared and the table is lost).        *)
C35_EmptyDescsFit ==
    (ntrav > 0 /\ iter.active /\ hist.flag) =>
        /\ Len(iter.empty_descs) <= MAX_TRANSLATION_LEVELS
        /\ ~(/\ panicked
             /\ yielded.kind = "Panic"
             /\ Len(iter.empty_descs) = MAX_TRANSLATION_LEVELS
             /\ UnlinkedTableLost)

(* the part of an address below the TTBR-select bits, which is what the     *)
(* iterator's va_space_explored holds                                       *)
LowBits(va) == va % VaSpace

(* the slots of linked tables that hold a Block or Page descriptor *)
LeafSlots(t) ==
    { [tbl |-> id, idx |-> i] : id \in LinkedTables(t) \cup {RootTable}, i \in Slots } \cap
    { s \in [tbl : TableIds, idx : Slots] :
        \E level \in 0 .. 3 :
            /\ s.tbl \in (IF level = 0 THEN {RootTable}
                           ELSE { x.child : x \in { y \in TableSlots(t) : y.level = level - 1 } })
            /\ parse_desc(t[s.tbl][s.idx], level) \in {"Block", "Page"} }

Increasing(blocks) ==
    \A i, j \in DOMAIN blocks : i < j => blocks[i].vaddr < blocks[j].vaddr

(* C36: a traversal ends: no call of next() panics, the frame stack holds   *)
(* at most MAX_TRANSLATION_LEVELS tables, the yielded blocks have strictly  *)
(* increasing addresses that stay below the end of the range (so the walk   *)
(* stops there, and the calls are finitely many, also when each block is    *)
(* removed), and a traversal that only looks yields at most one             *)
(* PhysicalBlock per leaf descriptor and one UnusedMemory per linked table. *)
C36_TraverseTerminates ==
    ntrav > 0 =>
        /\ yielded.kind # "Panic"
        /\ iter.active => Len(iter.stash) <= MAX_TRANSLATION_LEVELS
        /\ Increasing(hist.blocks)
        /\ \A i \in DOMAIN hist.blocks : hist.blocks[i].vaddr < LowBits(hist.range.end)
        /\ hist.mode = "look" =>
             /\ Len(hist.blocks) <= Cardinality(LeafSlots(hist.pre))
             /\ Len(hist.unused) <= Cardinality(LinkedTables(hist.pre))

(* the bit of the pair of `block` lies inside the free map of the level *)
BitInsideMap(b, level, block) ==
    /\ block >= b.zero_page
    /\ (((block - b.zero_page) \div Pow2(level)) \div 2) \div FreeMapWordBits
           < free_map_size_for(level, MaxLevel)

(* the free-map accesses of alloc(size): the block it pops, at the level it *)
(* was found and at every level of the split loop                           *)
AllocAccesses(b, size) ==
    LET start_level == Max(ilog2(size), MinLevel)
        nonempty == { l \in start_level .. MaxLevel : b.free_list[l] # <<>> }
        level == CHOOSE l \in nonempty : \A k \in nonempty : l <= k
    IN IF ~is_power_of_two(size) \/ nonempty = {} THEN {}
       ELSE { [level |-> l, block |-> b.free_list[level][Len(b.free_list[level])]] :
                l \in start_level .. level }

(* C37: on an allocator that manage returned, whatever the size and the     *)
(* alignment of the region, every block on a free list has its bit inside   *)
(* the free map of its level (the accesses manage made), and so have the    *)
(* accesses of every alloc and of the free of every outstanding block.      *)
C37_FreeMapIndexInBounds ==
    BuddyQuiet =>
        /\ \A level \in BuddyLevels : \A x \in FreeBlocks(storage.st, level) :
             BitInsideMap(storage.st, level, x)
        /\ \A size \in 1 .. MaxBlock : \A a \in AllocAccesses(storage.st, size) :
             BitInsideMap(storage.st, a.level, a.block)
        /\ \A o \in storage.outstanding :
             BitInsideMap(storage.st, Max(ilog2(o.size), MinLevel), o.ptr)

(* C38: when a call of alloc(size) by a thread returns PhysicalOOM, there   *)
(* was an instant during the call at which the free memory held no block    *)
(* of at least the requested size, counting the blocks that other threads   *)
(* hold in the middle of a split or a merge.                                *)
C38_OomOnlyWhenNoBlockFree ==
    SharedRun =>
        \A t \in Threads :
            (/\ storage.thr[t].pc = "idle"
             /\ storage.thr[t].op = "alloc"
             /\ storage.thr[t].res = "PhysicalOOM") => ~storage.thr[t].avail

(* C39: a table walk that runs concurrently with one call of map(m)        *)
(* returns, for the address it translates, the result of virt2phy before    *)
(* the map or the result after it, and for an address outside m's range     *)
(* the result before the map.                                               *)
C39_WalkSeesPreOrPost ==
    (last.op \in {"mapping", "mapped"} /\ yielded.kind = "Walk") =>
        LET pre == virt2phy(last.pre, yielded.vaddr)
            post == virt2phy(ApplyStores(tbl, last.stores), yielded.vaddr)
        IN /\ yielded.res \in {pre, post}
           /\ (yielded.vaddr < last.m.virt_addr \/ yielded.vaddr >= MapEnd(last.m))
                 => yielded.res = pre
=============================================================================
